---- MODULE Spec2Model ----
(***************************************************************************)
(* Verification model of the river water-chemistry interpolation code      *)
(* (hydrochem_trends_river_oslofjord_use_case/src/interpolate.py).         *)
(*                                                                         *)
(* Three state machines share this module:                                 *)
(*   SpecAlign  - merge_daily_wc_q, the daily calendar builder;            *)
(*   SpecLinear - interpolate_with_gap_limit, the gap-limited linear fill; *)
(*   Spec       - the per-variable method selection loop of interpolate(). *)
(* A machine's variables stay at their idle values under the other         *)
(* specifications.                                                         *)
(*                                                                         *)
(* Numbers: a missing value (pandas NaN) is the value NaN below; all real  *)
(* data values are non-negative (concentrations, discharge).               *)
(***************************************************************************)
EXTENDS Integers, Sequences, FiniteSets, TLC

VARIABLES
    \* ---- merge_daily_wc_q
    al_pc,        \* "call" | "returned" | "raised"
    q_df,         \* discharge rows of the station, in file order: [date, discharge]
    wc_df,        \* chemistry rows of the station, in file order: [date, value]
    agg_df,       \* the returned daily frame: rows [date, discharge, value]
    \* ---- interpolate_with_gap_limit
    li_pc,        \* "call" | "returned"
    series,       \* the daily input series (scaled values, NaN for missing)
    max_gap,      \* the limit argument
    li_out,       \* the returned series
    \* ---- interpolate(): method selection loop
    pc,              \* "loop" | "scored" | "selected" | "done"
    days,            \* days[b]: the number of calendar rows of block b
    fallback_method, \* selection.fallback_method of the configuration
    frame,           \* frame[v]: the columns of variable v in df_daily_all
    var_i,           \* position of the loop in chem_variables
    obs_start,       \* first block with an observation (loop local)
    obs_end,         \* last block with an observation (loop local)
    method_scores,   \* method_scores[v][suffix]
    good_methods,    \* loop local, sorted
    selected_col,    \* loop local (suffix of the selected column)
    selected_series, \* loop local
    filled_series,   \* loop local
    fallback_used,   \* loop local
    outcome,         \* outcome[v]: the branch the loop took for variable v
    methods_chosen,  \* methods_chosen[v]
    final,           \* final[v]: the column <v>_final of df_daily_all, or Absent
    ds,              \* the data variables of the exported dataset
    stdout,          \* the lines printed by the loop: <<v, text, column>>
    qc_plots,        \* the QC figures saved by the loop: <<v, primary, donor>>
    \* ---- interpolate(): the reconstruction stages before the selection
    pl_pc,           \* "linear" | "gam" | "regres" | "monthly" | "combine" | "raised"
    chem_variables,  \* the configured variables
    merged_cols,     \* the configured variables that are columns of `merged`
    linear_cfg,      \* interpolation.linear of the configuration: [method, order]
    have_pygam,      \* _HAVE_PYGAM
    train_rows,      \* train_rows[v]: what `merged` holds for variable v
    gam_raises,      \* gam_raises[v]: model.gridsearch raises for variable v
    pl_cols,         \* the candidate columns computed so far: <<v, suffix>>
    pl_error,        \* the exception that ended the run, or None
    \* ---- compute_gam, monthwise_loglog_regressions, monthly medians
    cd_pc,           \* "call" | "returned"
    cd_fn,           \* the function that is called
    cd_obs,          \* the variable's column of the station frame, one entry per day
    cd_q,            \* the discharge column of the station frame
    cd_fit,          \* cd_fit[month]: what the fitted model predicts (see CandInit)
    cd_col,          \* the candidate column that results, or Absent
    mm_pc,           \* "call" | "returned"
    mm_year,         \* the year of the monthly frame
    mm_month,        \* a month of the monthly frame
    mm_anchor,       \* <<month, day>> of the index entry the month gets
    ag_pc,           \* "call" | "returned"
    ag_freq,         \* "M" (monthly) or "Y" (annual)
    ag_daily,        \* the daily fluxes of one period of daily_df, one variable
    ag_out,          \* the aggregate of the period
    fx_pc,           \* "call" | "returned"
    fx_df,           \* merged_df: discharge, the variable columns in order, their values
    fx_units,        \* param_unit_map: variable -> unit, for the variables with an entry
    fx_out,          \* flux_df: variable -> daily fluxes, for the variables with a column
    fr_pc,           \* the statement flux() is at, "raised" after an exception
    fr_error,        \* the exception that ended flux(), or None
    tp_pc,           \* the step of NivaTilePlotProcessor._execute, "raised" after an exception
    tp_data,         \* the inputs of the request: key -> value, for the keys given
    tp_r_args,       \* the arguments handed to run_docker_container3
    tp_error,        \* the exception raised, or None
    dk_pc,           \* the step of run_docker_container3, "raised" after an exception
    dk_host_out,     \* output_dir_on_host, or None
    dk_script_args,  \* script_args: a list of Python values
    dk_command,      \* docker_command, the list handed to subprocess.run
    dk_error,        \* the exception raised, or None
    er_pc,           \* the step of get_error_message_from_docker_stderr
    er_stderr,       \* stderr.split('\n'): the lines, each a sequence of pieces
    er_i,            \* the position of the line the loop is at
    user_err_msg,    \* the message built so far, a sequence of pieces
    error_on_previous_line,\* flag of the loop
    colon_on_previous_line\* flag of the loop

alignVars == <<al_pc, q_df, wc_df, agg_df>>
linearVars == <<li_pc, series, max_gap, li_out>>
configVars == <<days, fallback_method, frame>>
loopVars == <<pc, var_i, obs_start, obs_end, method_scores, good_methods, selected_col,
              selected_series, filled_series, fallback_used, outcome, methods_chosen,
              final, ds, stdout, qc_plots>>
selectVars == <<configVars, loopVars>>
pipeVars == <<pl_pc, chem_variables, merged_cols, linear_cfg, have_pygam, train_rows,
              gam_raises, pl_cols, pl_error>>
candVars == <<cd_pc, cd_fn, cd_obs, cd_q, cd_fit, cd_col>>
coreVars == <<alignVars, linearVars, selectVars, pipeVars, candVars>>
anchorVars == <<mm_pc, mm_year, mm_month, mm_anchor>>
aggVars == <<ag_pc, ag_freq, ag_daily, ag_out>>
fluxVars == <<fx_pc, fx_df, fx_units, fx_out>>
runVars == <<fr_pc, fr_error>>
tileVars == <<tp_pc, tp_data, tp_r_args, tp_error>>
cmdVars == <<dk_pc, dk_host_out, dk_script_args, dk_command, dk_error>>
errVars == <<er_pc, er_stderr, er_i, user_err_msg, error_on_previous_line, colon_on_previous_line>>
restVars == <<anchorVars, aggVars, fluxVars, runVars, tileVars, cmdVars, errVars>>
vars == <<alignVars, linearVars, selectVars, pipeVars, candVars, restVars>>

\* pandas NaN: a missing value.  No real value of the model is -1.
NaN == 0 - 1

IsNaN(x) == x = NaN

NotNa(x) == x # NaN

\* ------------------------------------------------------------------------
\* Generic helpers
\* ------------------------------------------------------------------------
Max(a, b) == IF a >= b THEN a ELSE b

Min(a, b) == IF a <= b THEN a ELSE b

SetMax(S) == CHOOSE x \in S : \A y \in S : y <= x

SetMin(S) == CHOOSE x \in S : \A y \in S : x <= y

RECURSIVE Gcd(_, _)
Gcd(a, b) == IF b = 0 THEN a ELSE Gcd(b, a % b)

Lcm(a, b) == (a * b) \div Gcd(a, b)

RECURSIVE LcmUpTo(_)
LcmUpTo(n) == IF n <= 1 THEN 1 ELSE Lcm(n, LcmUpTo(n - 1))

\* All sequences over S of length 0..n.
SeqsUpTo(S, n) == UNION {[1..k -> S] : k \in 0..n}

\* Sum of a sequence of integers.
RECURSIVE SeqSum(_)
SeqSum(s) == IF s = <<>> THEN 0 ELSE Head(s) + SeqSum(Tail(s))

\* The elements of a finite set of integers, ascending.
RECURSIVE SortedSeq(_)
SortedSeq(S) ==
    IF S = {} THEN <<>>
    ELSE LET m == SetMin(S) IN <<m>> \o SortedSeq(S \ {m})

\* ------------------------------------------------------------------------
\* merge_daily_wc_q  (DailyAligner)
\* ------------------------------------------------------------------------
\* Bounds of the enumerated inputs.
MaxDate == 3

MaxQRows == 2

MaxWcRows == 2

\* Values are stored multiplied by AlignScale, so that the mean of up to
\* MaxWcRows values on one date is an exact integer.
AlignScale == LcmUpTo(MaxWcRows)

\* Row i of the discharge file carries discharge i (distinct per row, so that
\* the row kept by drop_duplicates is observable).
QRows(dates) == [i \in 1..Len(dates) |-> [date |-> dates[i], discharge |-> i * AlignScale]]

\* Row i of the chemistry file carries value i, or is a row with a missing value.
WcRows(dates, present) ==
    [i \in 1..Len(dates) |->
        [date |-> dates[i], value |-> IF present[i] THEN i * AlignScale ELSE NaN]]

\* DataFrame.drop_duplicates(subset=date_col): keep the first row of each date.
DropDuplicates(df) ==
    LET keep(i) == \A j \in 1..(i - 1) : df[j].date # df[i].date
        RECURSIVE walk(_)
        walk(i) == IF i > Len(df) THEN <<>>
                   ELSE IF keep(i) THEN <<df[i]>> \o walk(i + 1) ELSE walk(i + 1)
    IN walk(1)

\* pd.date_range(min, max, freq="D")
DateRange(lo, hi) == [i \in 1..(hi - lo + 1) |-> lo + i - 1]

\* pd.merge(left, right, on=date, how="left"): one output row per matching right
\* row, or one row with the right columns missing; left order kept.
MergeLeftQ(full_dates, q) ==
    LET rowsFor(d) ==
            LET hits == SelectSeq(q, LAMBDA r : r.date = d)
            IN IF hits = <<>> THEN <<[date |-> d, discharge |-> NaN]>>
               ELSE [k \in 1..Len(hits) |-> [date |-> d, discharge |-> hits[k].discharge]]
        RECURSIVE walk(_)
        walk(i) == IF i > Len(full_dates) THEN <<>>
                   ELSE rowsFor(full_dates[i]) \o walk(i + 1)
    IN walk(1)

MergeLeftWc(left, wc) ==
    LET rowsFor(l) ==
            LET hits == SelectSeq(wc, LAMBDA r : r.date = l.date)
            IN IF hits = <<>>
               THEN <<[date |-> l.date, discharge |-> l.discharge, value |-> NaN]>>
               ELSE [k \in 1..Len(hits) |->
                        [date |-> l.date, discharge |-> l.discharge, value |-> hits[k].value]]
        RECURSIVE walk(_)
        walk(i) == IF i > Len(left) THEN <<>> ELSE rowsFor(left[i]) \o walk(i + 1)
    IN walk(1)

\* Series.mean(): the mean of the non-missing values, NaN when there is none.
MeanSkipNa(vals) ==
    LET ok == SelectSeq(vals, NotNa)
    IN IF ok = <<>> THEN NaN ELSE SeqSum(ok) \div Len(ok)

\* Mutant: the duplicate-date rows are not aggregated.
GroupByDateMean_NoAgg(merged) ==
    [k \in 1..Len(merged) |->
        [date |-> merged[k].date, discharge |-> merged[k].discharge,
         value |-> merged[k].value]]

\* merged.groupby(date_col)[num_cols].mean().reset_index(): one row per distinct
\* date, ascending, each numeric column averaged.
GroupByDateMean(merged) ==
    LET dates == SortedSeq({merged[i].date : i \in 1..Len(merged)})
        grp(d) == SelectSeq(merged, LAMBDA r : r.date = d)
    IN [k \in 1..Len(dates) |->
          LET g == grp(dates[k])
          IN [date |-> dates[k],
              discharge |-> MeanSkipNa([i \in 1..Len(g) |-> g[i].discharge]),
              value |-> MeanSkipNa([i \in 1..Len(g) |-> g[i].value])]]

\* The whole of merge_daily_wc_q after the station filter and the empty check.
MergeDailyFrame(q, wc) ==
    LET q1 == DropDuplicates(q)
        qdates == {q1[i].date : i \in 1..Len(q1)}
        full_dates == DateRange(SetMin(qdates), SetMax(qdates))
        merged1 == MergeLeftQ(full_dates, q1)
        merged2 == MergeLeftWc(merged1, wc)
    IN GroupByDateMean(merged2)

AlignIdle ==
    /\ al_pc = "idle"
    /\ q_df = <<>>
    /\ wc_df = <<>>
    /\ agg_df = <<>>

LinearIdle ==
    /\ li_pc = "idle"
    /\ series = <<>>
    /\ max_gap = 0
    /\ li_out = <<>>

AlignInit ==
    /\ al_pc = "call"
    /\ \E qd \in SeqsUpTo(1..MaxDate, MaxQRows) : q_df = QRows(qd)
    /\ \E wd \in SeqsUpTo(1..MaxDate, MaxWcRows) :
         \E pr \in [1..Len(wd) -> BOOLEAN] : wc_df = WcRows(wd, pr)
    /\ agg_df = <<>>

\* if q_df.empty: raise ValueError
MergeRaise ==
    /\ al_pc = "call"
    /\ q_df = <<>>
    /\ al_pc' = "raised"
    /\ UNCHANGED <<q_df, wc_df, agg_df>>

MergeReturn ==
    /\ al_pc = "call"
    /\ q_df # <<>>
    /\ agg_df' = MergeDailyFrame(q_df, wc_df)
    /\ al_pc' = "returned"
    /\ UNCHANGED <<q_df, wc_df>>

SelectIdle ==
    /\ pc = "idle"
    /\ days = <<>>
    /\ fallback_method = "idle"
    /\ frame = <<>>
    /\ var_i = 0
    /\ obs_start = 0
    /\ obs_end = 0
    /\ method_scores = <<>>
    /\ good_methods = <<>>
    /\ selected_col = "idle"
    /\ selected_series = <<>>
    /\ filled_series = <<>>
    /\ fallback_used = "idle"
    /\ outcome = <<>>
    /\ methods_chosen = <<>>
    /\ final = <<>>
    /\ ds = {}
    /\ stdout = {}
    /\ qc_plots = {}

PipeIdle ==
    /\ pl_pc = "idle"
    /\ chem_variables = {}
    /\ merged_cols = {}
    /\ linear_cfg = <<>>
    /\ have_pygam = FALSE
    /\ train_rows = <<>>
    /\ gam_raises = <<>>
    /\ pl_cols = {}
    /\ pl_error = "idle"

CandIdle ==
    /\ cd_pc = "idle"
    /\ cd_fn = "idle"
    /\ cd_obs = <<>>
    /\ cd_q = <<>>
    /\ cd_fit = <<>>
    /\ cd_col = <<>>

CoreIdle == AlignIdle /\ LinearIdle /\ SelectIdle /\ PipeIdle /\ CandIdle

AnchorIdle ==
    /\ mm_pc = "idle"
    /\ mm_year = 0
    /\ mm_month = 0
    /\ mm_anchor = <<>>

AggIdle ==
    /\ ag_pc = "idle"
    /\ ag_freq = "idle"
    /\ ag_daily = <<>>
    /\ ag_out = 0

FluxIdle ==
    /\ fx_pc = "idle"
    /\ fx_df = <<>>
    /\ fx_units = <<>>
    /\ fx_out = <<>>

RunIdle ==
    /\ fr_pc = "idle"
    /\ fr_error = "idle"

TileIdle ==
    /\ tp_pc = "idle"
    /\ tp_data = <<>>
    /\ tp_r_args = <<>>
    /\ tp_error = "idle"

CmdIdle ==
    /\ dk_pc = "idle"
    /\ dk_host_out = "idle"
    /\ dk_script_args = <<>>
    /\ dk_command = <<>>
    /\ dk_error = "idle"

ErrIdle ==
    /\ er_pc = "idle"
    /\ er_stderr = <<>>
    /\ er_i = 0
    /\ user_err_msg = <<>>
    /\ error_on_previous_line = FALSE
    /\ colon_on_previous_line = FALSE

\* The parts of the state that belong to the other programs are at rest.
RestIdle ==
    /\ AnchorIdle
    /\ AggIdle
    /\ FluxIdle
    /\ RunIdle
    /\ TileIdle
    /\ CmdIdle
    /\ ErrIdle

AlignNext ==
    \/ MergeRaise /\ UNCHANGED <<linearVars, selectVars, pipeVars, candVars, restVars>>
    \/ MergeReturn /\ UNCHANGED <<linearVars, selectVars, pipeVars, candVars, restVars>>

InitAlign == AlignInit /\ LinearIdle /\ SelectIdle /\ PipeIdle /\ CandIdle /\ RestIdle

SpecAlign == InitAlign /\ [][AlignNext]_vars

\* ------------------------------------------------------------------------
\* C1: the daily frame has exactly one row per calendar day from the minimum
\* to the maximum discharge date: consecutive rows are one day apart, the
\* first row is the minimum discharge date and the last the maximum.
\* ------------------------------------------------------------------------
QDates == {q_df[i].date : i \in 1..Len(q_df)}

C1_DailyCalendar ==
    al_pc = "returned" =>
        /\ Len(agg_df) = SetMax(QDates) - SetMin(QDates) + 1
        /\ agg_df[1].date = SetMin(QDates)
        /\ agg_df[Len(agg_df)].date = SetMax(QDates)
        /\ \A i \in 1..(Len(agg_df) - 1) : agg_df[i + 1].date = agg_df[i].date + 1

\* Witness: a calendar of three days whose inner day has no discharge row
\* and carries two chemistry rows.
C1_Witness ==
    /\ al_pc = "returned"
    /\ Len(agg_df) >= 3
    /\ \E k \in 1..Len(agg_df) :
         /\ IsNaN(agg_df[k].discharge)
         /\ \E i, j \in 1..Len(wc_df) :
              i # j /\ wc_df[i].date = agg_df[k].date /\ wc_df[j].date = agg_df[k].date

\* ------------------------------------------------------------------------
\* interpolate_with_gap_limit  (LinearGapFill)
\* ------------------------------------------------------------------------
\* Bounds of the enumerated inputs.
MaxLen == 6

MaxGapArg == 3

\* Values are stored multiplied by LinScale, so that every linearly
\* interpolated value between two days at most MaxLen apart is an integer.
LinScale == LcmUpTo(MaxLen)

LinValues == {NaN, 10 * LinScale, 20 * LinScale}

\* The last non-missing position before i (0 when there is none).
PrevValid(s, i) ==
    LET c == {j \in 1..(i - 1) : NotNa(s[j])} IN IF c = {} THEN 0 ELSE SetMax(c)

\* The first non-missing position after i (0 when there is none).
NextValid(s, i) ==
    LET c == {j \in (i + 1)..Len(s) : NotNa(s[j])} IN IF c = {} THEN 0 ELSE SetMin(c)

\* np.interp at position i: linear between the neighbouring valid points,
\* constant beyond the last valid point.
InterpAt(s, i) ==
    LET p == PrevValid(s, i)
        n == NextValid(s, i)
    IN IF NotNa(s[i]) THEN s[i]
       ELSE IF p = 0 /\ n = 0 THEN NaN
       ELSE IF p = 0 THEN s[n]
       ELSE IF n = 0 THEN s[p]
       ELSE s[p] + ((s[n] - s[p]) * (i - p)) \div (n - p)

\* pandas _interp_limit, forward direction: a missing position keeps its NaN
\* when it has no valid point before it, or when the `limit` positions before
\* it are all missing as well.
PreserveNaN(s, limit, i) ==
    /\ IsNaN(s[i])
    /\ \/ PrevValid(s, i) = 0
       \/ i - PrevValid(s, i) > limit

\* Series.interpolate(method="linear", limit=max_gap)
interpolate_with_gap_limit(s, limit) ==
    [i \in 1..Len(s) |-> IF PreserveNaN(s, limit, i) THEN NaN ELSE InterpAt(s, i)]

LinearInit ==
    /\ li_pc = "call"
    /\ series \in UNION {[1..n -> LinValues] : n \in 1..MaxLen}
    /\ max_gap \in 1..MaxGapArg
    /\ li_out = <<>>

LinearReturn ==
    /\ li_pc = "call"
    /\ li_out' = interpolate_with_gap_limit(series, max_gap)
    /\ li_pc' = "returned"
    /\ UNCHANGED <<series, max_gap>>

LinearNext == LinearReturn /\ UNCHANGED <<alignVars, selectVars, pipeVars, candVars, restVars>>

InitLinear == LinearInit /\ AlignIdle /\ SelectIdle /\ PipeIdle /\ CandIdle /\ RestIdle

SpecLinear == InitLinear /\ [][LinearNext]_vars

\* Position i..j is a maximal run of missing days of the input series.
IsMissingRun(s, i, j) ==
    /\ i <= j
    /\ \A k \in i..j : IsNaN(s[k])
    /\ (i = 1 \/ NotNa(s[i - 1]))
    /\ (j = Len(s) \/ NotNa(s[j + 1]))

\* ------------------------------------------------------------------------
\* C2: every maximal run of consecutive missing days that is longer than
\* max_gap is still entirely missing in the output of LinearGapFill.
\* ------------------------------------------------------------------------
C2_NoLongRunFilled ==
    li_pc = "returned" =>
        \A i, j \in 1..Len(series) :
            (IsMissingRun(series, i, j) /\ j - i + 1 > max_gap) =>
                \A k \in i..j : IsNaN(li_out[k])

\* ------------------------------------------------------------------------
\* interpolate(): the per-variable method selection loop  (MethodSelector)
\*
\* The station calendar is a sequence of blocks of consecutive days; block b
\* stands for days[b] calendar rows that carry the same entry in every column
\* of df_daily_all.  Every row-wise operation of the code (counting valid
\* pairs, sums of squares, run lengths of missing days, minima and maxima) is
\* computed over the rows the blocks stand for.
\* ------------------------------------------------------------------------
\* Program constants (defaults of the selection configuration).
R2ThresholdNum == 4

R2ThresholdDen == 5

z_score_limit == 3

tolerance == 50

extreme_ratio_limit == 2

\* valid.sum() < 10: a method is scored on at least 10 valid pairs.
MinValidPairs == 10

\* gap_lengths.max() >= 1460: a long gap.
LongGapDays == 1460

\* The number of configured chemistry variables of the enumerated stations.
NumVars == 2

Suffixes == {"linear_interp", "annual_gam", "monthly_regres", "monthly_interp"}

candidate_suffixes == <<"annual_gam", "monthly_regres", "monthly_interp">>

donor_suffixes == <<"annual_gam", "monthly_regres">>

\* A column that is not in the frame.
Absent == <<>>

\* The "no value" of selected_col, fallback_used and methods_chosen.
None == "None"

\* A series of missing values over the calendar.
AllNaN(n) == [b \in 1..n |-> NaN]

\* ---- pandas / sklearn primitives over block series -----------------------
\* Series.first_valid_index() / last_valid_index(): 0 stands for None.
FirstValid(s) ==
    LET c == {b \in 1..Len(s) : NotNa(s[b])} IN IF c = {} THEN 0 ELSE SetMin(c)

LastValid(s) ==
    LET c == {b \in 1..Len(s) : NotNa(s[b])} IN IF c = {} THEN 0 ELSE SetMax(c)

\* F(v), with v evaluated once.
Bind(v, F(_)) == CHOOSE r \in {F(x) : x \in {v}} : TRUE

\* Sum over a set of blocks of days[b] * f[b].
RECURSIVE WSumFrom(_, _, _, _)
WSumFrom(k, B, d, f) ==
    IF k > Len(d) THEN 0
    ELSE (IF k \in B THEN d[k] * f[k] ELSE 0) + WSumFrom(k + 1, B, d, f)

WSum(B, d, f) == Bind(<<B, f>>, LAMBDA a : WSumFrom(1, a[1], d, a[2]))

\* df.loc[lo:hi][col]: the series restricted to the observed span (outside
\* the span the restricted series has no rows; they read as missing).
Restrict(s, lo, hi) == [b \in 1..Len(s) |-> IF lo <= b /\ b <= hi THEN s[b] ELSE NaN]

\* valid = y_obs.notna() & y_pred.notna()
ValidBlocks(y_obs, y_pred) == {b \in 1..Len(y_obs) : NotNa(y_obs[b]) /\ NotNa(y_pred[b])}

ValidCount(d, y_obs, y_pred) == WSum(ValidBlocks(y_obs, y_pred), d, [b \in 1..Len(d) |-> 1])

\* sklearn r2_score(y_obs[valid], y_pred[valid]) as an exact fraction
\* [num, den], den > 0:  1 - SS_res / SS_tot, and for a constant y_true 1.0
\* when the prediction is perfect and 0.0 otherwise.
R2Score(d, y_obs, y_pred) ==
    LET V == ValidBlocks(y_obs, y_pred)
        n == WSum(V, d, [b \in 1..Len(d) |-> 1])
        S == WSum(V, d, y_obs)
        SS == WSum(V, d, [b \in 1..Len(d) |-> y_obs[b] * y_obs[b]])
        res == WSum(V, d, [b \in 1..Len(d) |-> (y_obs[b] - y_pred[b]) * (y_obs[b] - y_pred[b])])
        totN == n * SS - S * S
    IN IF totN > 0 THEN [num |-> totN - n * res, den |-> totN]
       ELSE IF res = 0 THEN [num |-> 1, den |-> 1]
       ELSE [num |-> 0, den |-> 1]

\* a >= b and a > b on fractions with positive denominators.
R2Geq(a, b) == a.num * b.den >= b.num * a.den

R2Gt(a, b) == a.num * b.den > b.num * a.den

R2Threshold == [num |-> R2ThresholdNum, den |-> R2ThresholdDen]

\* Variant: the good methods are left in the order of candidate_suffixes.
SortByR2Desc_Unsorted(ms, r2) == ms

\* list.sort(key=r2, reverse=True): descending and stable.
SortByR2Desc(ms, r2) ==
    IF Len(ms) <= 1 THEN ms ELSE
    LET before(i, j) == R2Gt(r2[ms[i]], r2[ms[j]]) \/ (~R2Gt(r2[ms[j]], r2[ms[i]]) /\ i < j)
        rank(i) == Cardinality({j \in 1..Len(ms) : before(j, i)}) + 1
    IN [k \in 1..Len(ms) |-> ms[CHOOSE i \in 1..Len(ms) : rank(i) = k]]

\* The count, sum and sum of squares of obs = y_obs.dropna().
ObsStats(d, y_obs) ==
    LET O == {b \in 1..Len(y_obs) : NotNa(y_obs[b])}
    IN [n |-> WSum(O, d, [b \in 1..Len(d) |-> 1]),
        S |-> WSum(O, d, y_obs),
        SS |-> WSum(O, d, [b \in 1..Len(d) |-> y_obs[b] * y_obs[b]])]

\* (pred > obs.mean() + z_score_limit * obs.std() + tolerance) for one
\* predicted value p, with the sample standard deviation (ddof = 1).  With n
\* obs days of sum S and sum of squares SS:
\*   p - tolerance - S/n > z * sqrt((n*SS - S*S) / (n*(n-1))).
\* A threshold that is NaN (fewer than two observations) is never exceeded.
ExceedsThreshold(st, p) ==
    LET D == st.n * (p - tolerance) - st.S
    IN /\ NotNa(p)
       /\ st.n >= 2
       /\ D > 0
       /\ D * D * (st.n - 1) >
            z_score_limit * z_score_limit * st.n * (st.n * st.SS - st.S * st.S)

\* (pred > final_threshold).any()
FailsOutlierCheck(d, y_obs, pred) ==
    Bind(<<ObsStats(d, y_obs), pred>>,
         LAMBDA a : \E b \in 1..Len(a[2]) : ExceedsThreshold(a[1], a[2][b]))

\* Series.min() / Series.max(), missing values skipped.
SeriesMin(s) == SetMin({s[b] : b \in {x \in 1..Len(s) : NotNa(s[x])}})

SeriesMax(s) == SetMax({s[b] : b \in {x \in 1..Len(s) : NotNa(s[x])}})

\* missing_mask = filled_series.loc[obs_start:obs_end].isna()
MissingMask(s, lo, hi) == {b \in lo..hi : IsNaN(s[b])}

\* gap_lengths.max(): the number of days of the longest run of consecutive
\* missing rows.
RunDays(d, i, j) == WSum(i..j, d, [b \in 1..Len(d) |-> 1])

MaxGapLength(d, missing) ==
    SetMax({0} \cup {RunDays(d, r[1], r[2]) : r \in
                        {x \in missing \X missing :
                            x[1] <= x[2] /\ \A b \in x[1]..x[2] : b \in missing}})

\* too_extreme = pred_max > obs_max * ratio or pred_min < obs_min / ratio
TooExtreme(y_obs, y_pred) ==
    \/ SeriesMax(y_pred) > SeriesMax(y_obs) * extreme_ratio_limit
    \/ SeriesMin(y_pred) * extreme_ratio_limit < SeriesMin(y_obs)

\* A method without an entry in method_scores.
NoScore == [num |-> 0, den |-> 0]

IsScored(sc) == sc.den # 0

\* Variant: a column is scored whatever its number of valid pairs.
ScoreOf_NoMinPairs(d, y_obs, col, lo, hi) ==
    IF col = Absent THEN NoScore
    ELSE R2Score(d, y_obs, Restrict(col, lo, hi))

\* The scoring of one column against the observations of the span: the
\* entry written to method_scores, or NoScore when the column is not in the
\* frame or has fewer than 10 valid pairs.
ScoreOf(d, y_obs, col, lo, hi) ==
    IF col = Absent THEN NoScore
    ELSE LET y_pred == Restrict(col, lo, hi)
         IN IF ValidCount(d, y_obs, y_pred) < MinValidPairs THEN NoScore
            ELSE R2Score(d, y_obs, y_pred)

\* Lines 585-599: the scores of the candidate suffixes.
CandidateScores(d, fr, lo, hi) ==
    LET y_obs == Restrict(fr.obs, lo, hi)
        isCand(m) == \E k \in 1..Len(candidate_suffixes) : candidate_suffixes[k] = m
    IN [m \in Suffixes |-> IF isCand(m) THEN ScoreOf(d, y_obs, fr.cols[m], lo, hi) ELSE NoScore]

\* Lines 596-599: the candidates with r2 >= r2_threshold, best first.
GoodMethods(scores) ==
    LET good == SelectSeq(candidate_suffixes,
                          LAMBDA m : IsScored(scores[m]) /\ R2Geq(scores[m], R2Threshold))
    IN SortByR2Desc(good, scores)

\* Variant: the best good method is taken without the outlier check.
FirstPlausible_NoGate(d, fr, good, lo, hi) ==
    IF Len(good) = 0 THEN None ELSE good[1]

\* Lines 604-616: the first good method that passes the outlier check
\* (None when every good method is rejected).
FirstPlausible(d, fr, good, lo, hi) ==
    LET y_obs == Restrict(fr.obs, lo, hi)
        ok(k) == ~FailsOutlierCheck(d, y_obs, Restrict(fr.cols[good[k]], lo, hi))
        c == {k \in 1..Len(good) : ok(k)}
    IN IF c = {} THEN None ELSE good[SetMin(c)]

\* Variant: no donor is rejected for extreme predictions.
DonorCandidates_NoExtremeCheck(d, fr, lo, hi, long_gap) ==
    LET y_obs == Restrict(fr.obs, lo, hi)
        keep(m) ==
            /\ fr.cols[m] # Absent
            /\ ValidCount(d, y_obs, Restrict(fr.cols[m], lo, hi)) >= MinValidPairs
    IN SelectSeq(donor_suffixes, keep)

\* Lines 639-659: the donors that enter fb_cands, in the order of the loop.
DonorCandidates(d, fr, lo, hi, long_gap) ==
    LET y_obs == Restrict(fr.obs, lo, hi)
        keep(m) ==
            /\ fr.cols[m] # Absent
            /\ ValidCount(d, y_obs, Restrict(fr.cols[m], lo, hi)) >= MinValidPairs
            /\ ~(long_gap /\ TooExtreme(y_obs, Restrict(fr.cols[m], lo, hi)))
    IN SelectSeq(donor_suffixes, keep)

\* Lines 649: the scores after the donor loop (setdefault(...)[suffix] = r2b).
DonorScores(d, fr, lo, hi, scores) ==
    LET y_obs == Restrict(fr.obs, lo, hi)
        isDonor(m) == \E k \in 1..Len(donor_suffixes) : donor_suffixes[k] = m
    IN [m \in Suffixes |->
          IF isDonor(m) /\ IsScored(ScoreOf(d, y_obs, fr.cols[m], lo, hi))
          THEN ScoreOf(d, y_obs, fr.cols[m], lo, hi) ELSE scores[m]]

\* Variant: the donor is written to every row where it has a value.
FillFromBest_Overwrite(sel_series, missing, fb_cands, best) ==
    LET avail == {b \in missing : NotNa(best[b])}
    IN IF avail = {} THEN [series |-> sel_series, used |-> None]
       ELSE [series |-> [b \in 1..Len(sel_series) |->
                            IF NotNa(best[b]) THEN best[b] ELSE sel_series[b]],
             used |-> fb_cands[1]]

\* Lines 661-668: the best donor fills the missing rows it has a value for.
FillFromBest(sel_series, missing, fb_cands, best) ==
    LET avail == {b \in missing : NotNa(best[b])}
    IN IF avail = {} THEN [series |-> sel_series, used |-> None]
       ELSE [series |-> [b \in 1..Len(sel_series) |->
                            IF b \in avail THEN best[b] ELSE sel_series[b]],
             used |-> fb_cands[1]]

\* Lines 634-662: fb_cands, sorted by r2 (best first).
SortedDonors(d, fr, lo, hi, missing) ==
    Bind(<<MaxGapLength(d, missing) >= LongGapDays,
           [m \in Suffixes |-> ScoreOf(d, Restrict(fr.obs, lo, hi), fr.cols[m], lo, hi)]>>,
         LAMBDA a : SortByR2Desc(DonorCandidates(d, fr, lo, hi, a[1]), a[2]))

\* Lines 629-668: the gap-fill pass on a selected series.  The result is
\* [series, used]: the filled series and fallback_used.
FillGaps(d, fr, lo, hi, sel_series) ==
    Bind(MissingMask(sel_series, lo, hi),
         LAMBDA missing :
            IF missing = {} THEN [series |-> sel_series, used |-> None]
            ELSE Bind(SortedDonors(d, fr, lo, hi, missing),
                      LAMBDA fb_cands :
                         IF fb_cands = <<>> THEN [series |-> sel_series, used |-> None]
                         ELSE FillFromBest(sel_series, missing, fb_cands,
                                           Restrict(fr.cols[fb_cands[1]], lo, hi))))

\* ---- the enumerated stations ---------------------------------------------
\* Calendar: block 1 lies before the first observation, blocks 2, 3 and 7
\* carry the observations (9 + 1 + 1 days), blocks 4, 5, 6 are a run of days
\* without observation of 1 + g + 1 days, and block 8 lies after the last
\* observation.
GapDayChoices == {1, 1458}

Layout(g) == <<1, 9, 1, 1, g, 1, 1, 1>>

\* linear.max_gap of the configuration: one day, or more than any gap.
MaxGapChoices == {1, 2000}

\* selection.fallback_method of the configuration.
FallbackChoices == {"linear_interp", "monthly_interp", "annual_gam"}

ObsFull == <<NaN, 4, 6, NaN, NaN, NaN, 6, NaN>>

ObsNone == <<NaN, NaN, NaN, NaN, NaN, NaN, NaN, NaN>>

\* Lines 174-176: the column <var>_linear_interp of a block series whose
\* missing runs lie between equal observations: a missing block is filled
\* when its last day is at most `limit` days after the previous observation.
LinearColumn(obs, d, limit) ==
    [b \in 1..Len(obs) |->
        IF NotNa(obs[b]) THEN obs[b]
        ELSE LET p == PrevValid(obs, b)
                 n == NextValid(obs, b)
             IN IF p = 0 \/ RunDays(d, p + 1, b) > limit THEN NaN
                ELSE IF n = 0 THEN obs[p]
                ELSE obs[p] + ((obs[n] - obs[p]) * RunDays(d, p + 1, b))
                                 \div (RunDays(d, p + 1, n - 1) + 1)]

\* A candidate column by its profile <<fit, g1, g2>>: how it fits the three
\* observed blocks, and what it predicts in the run without observations
\* (g1 in blocks 4 and 5, g2 in block 6); `outside` is its entry before the
\* first and after the last observation.
FitAt3(fit) == IF fit = "exact" THEN 6 ELSE IF fit = "short" THEN NaN ELSE 5

FitAt7(fit) == IF fit = "poor" THEN 5 ELSE IF fit = "short" THEN NaN ELSE 6

MethodColumn(outside, pr) ==
    <<outside, 4, FitAt3(pr[1]), pr[2], pr[2], pr[3], FitAt7(pr[1]), outside>>

GamProfiles ==
    {<<"exact", 6, 6>>, <<"exact", 20, 6>>, <<"exact", 60, 6>>, <<"near", 6, 6>>,
     <<"near", 20, 6>>, <<"poor", 6, 6>>, <<"short", 6, 6>>}

RegresProfiles ==
    {<<"exact", 6, NaN>>, <<"near", NaN, NaN>>, <<"near", 6, NaN>>, <<"near", 6, 6>>,
     <<"near", 1, 1>>, <<"poor", 6, NaN>>, <<"poor", 1, 1>>}

MonthlyProfiles == {<<"exact", NaN, NaN>>, <<"near", 6, 6>>, <<"poor", 6, 6>>}

\* compute_gam and monthwise_loglog_regressions write no value outside the
\* observed span; a method that produced nothing leaves no column.
GamColumns == {Absent} \cup {MethodColumn(NaN, pr) : pr \in GamProfiles}

RegresColumns == {Absent} \cup {MethodColumn(NaN, pr) : pr \in RegresProfiles}

MonthlyColumns == {MethodColumn(6, pr) : pr \in MonthlyProfiles}

MkFrame(obs, lin, gam, reg, mon) ==
    [obs |-> obs,
     cols |-> [m \in Suffixes |->
                 IF m = "linear_interp" THEN lin
                 ELSE IF m = "annual_gam" THEN gam
                 ELSE IF m = "monthly_regres" THEN reg
                 ELSE mon]]

\* A variable without any observation: no GAM, no regression, and the
\* linear and monthly-median columns are all missing.
NoObsFrame == MkFrame(ObsNone, ObsNone, Absent, Absent, ObsNone)

FullFrames(d, limit) ==
    {MkFrame(ObsFull, LinearColumn(ObsFull, d, limit), g, r, m) :
        <<g, r, m>> \in GamColumns \X RegresColumns \X MonthlyColumns}

\* The frames of the variables after the first one, which is enumerated in full.
PlainFrames(d, limit) ==
    {NoObsFrame,
     MkFrame(ObsFull, LinearColumn(ObsFull, d, limit),
             MethodColumn(NaN, <<"exact", 6, 6>>), Absent, MethodColumn(6, <<"near", 6, 6>>))}

Vars == 1..NumVars

\* Lines 610-612: "<col> rejected": the good methods tried before the
\* selected one (all of them when none is selected).
GateMessages(v, good, selected) ==
    {<<v, "rejected", good[k]>> :
        k \in {j \in 1..Len(good) : \A i \in 1..j : good[i] # selected}}

\* Line 656: "<col> rejected for gap fill": the scored donors left out of
\* fb_cands when the selected series has a long gap.
DonorRejectMessages(v, d, fr, lo, hi, sel_series) ==
    LET missing == MissingMask(sel_series, lo, hi)
        y_obs == Restrict(fr.obs, lo, hi)
        rejected(m) ==
            /\ fr.cols[m] # Absent
            /\ ValidCount(d, y_obs, Restrict(fr.cols[m], lo, hi)) >= MinValidPairs
            /\ TooExtreme(y_obs, Restrict(fr.cols[m], lo, hi))
    IN IF missing = {} \/ MaxGapLength(d, missing) < LongGapDays THEN {}
       ELSE {<<v, "rejected for gap fill", donor_suffixes[k]>> :
                k \in {j \in 1..Len(donor_suffixes) : rejected(donor_suffixes[j])}}

\* Line 668: "Gaps filled from fallback <col>".
GapFillMessages(v, used) ==
    IF used = None THEN {} ELSE {<<v, "Gaps filled from fallback", used>>}

SelectInit ==
    /\ pc = "loop"
    /\ \E g \in GapDayChoices : days = Layout(g)
    /\ fallback_method \in FallbackChoices
    /\ \E limit \in MaxGapChoices :
         \E first \in FullFrames(days, limit) \cup {NoObsFrame} :
           \E rest \in [2..NumVars -> PlainFrames(days, limit)] :
              frame = [v \in Vars |-> IF v = 1 THEN first ELSE rest[v]]
    /\ var_i = 1
    /\ obs_start = 0
    /\ obs_end = 0
    /\ method_scores = [v \in Vars |-> [m \in Suffixes |-> NoScore]]
    /\ good_methods = <<>>
    /\ selected_col = None
    /\ selected_series = <<>>
    /\ filled_series = <<>>
    /\ fallback_used = None
    /\ outcome = [v \in Vars |-> "Pending"]
    /\ methods_chosen = [v \in Vars |-> [primary |-> None, donor |-> None]]
    /\ final = [v \in Vars |-> Absent]
    /\ ds = <<>>
    /\ stdout = {}
    /\ qc_plots = {}

\* Variant: a variable without observations ends the loop (return, not continue).
NoObservations_Abort ==
    /\ pc = "loop"
    /\ var_i \in Vars
    /\ FirstValid(frame[var_i].obs) = 0
    /\ outcome' = [outcome EXCEPT ![var_i] = "NoData"]
    /\ var_i' = NumVars + 1
    /\ obs_start' = 0
    /\ obs_end' = 0
    /\ good_methods' = <<>>
    /\ selected_col' = None
    /\ selected_series' = <<>>
    /\ filled_series' = <<>>
    /\ fallback_used' = None
    /\ stdout' = stdout \cup {<<var_i, "No observations found", None>>}
    /\ UNCHANGED <<pc, method_scores, methods_chosen, final, ds, qc_plots, configVars>>

\* ---- the loop over chem_variables ----------------------------------------
\* Lines 574-579: a variable without observations is skipped.
NoObservations ==
    /\ pc = "loop"
    /\ var_i \in Vars
    /\ FirstValid(frame[var_i].obs) = 0
    /\ outcome' = [outcome EXCEPT ![var_i] = "NoData"]
    /\ var_i' = var_i + 1
    /\ obs_start' = 0
    /\ obs_end' = 0
    /\ good_methods' = <<>>
    /\ selected_col' = None
    /\ selected_series' = <<>>
    /\ filled_series' = <<>>
    /\ fallback_used' = None
    /\ stdout' = stdout \cup {<<var_i, "No observations found", None>>}
    /\ UNCHANGED <<pc, method_scores, methods_chosen, final, ds, qc_plots, configVars>>

\* Lines 574-599: the observed span, the scores and the sorted good methods.
ScoreCandidates ==
    /\ pc = "loop"
    /\ var_i \in Vars
    /\ FirstValid(frame[var_i].obs) # 0
    /\ obs_start' = FirstValid(frame[var_i].obs)
    /\ obs_end' = LastValid(frame[var_i].obs)
    /\ method_scores' = [method_scores EXCEPT
                           ![var_i] = CandidateScores(days, frame[var_i], obs_start', obs_end')]
    /\ good_methods' = GoodMethods(method_scores'[var_i])
    /\ outcome' = [outcome EXCEPT ![var_i] = "Scored"]
    /\ selected_col' = None
    /\ selected_series' = <<>>
    /\ filled_series' = <<>>
    /\ fallback_used' = None
    /\ pc' = "scored"
    /\ UNCHANGED <<var_i, methods_chosen, final, ds, stdout, qc_plots, configVars>>

\* Lines 601-616: the first good method that passes the outlier check is selected.
OutlierCheck ==
    /\ pc = "scored"
    /\ LET m == FirstPlausible(days, frame[var_i], good_methods, obs_start, obs_end)
       IN /\ m # None
          /\ selected_col' = m
          /\ selected_series' = Restrict(frame[var_i].cols[m], obs_start, obs_end)
          /\ stdout' = stdout \cup GateMessages(var_i, good_methods, m)
                               \cup {<<var_i, "Selected", m>>}
    /\ outcome' = [outcome EXCEPT ![var_i] = "Accepted"]
    /\ pc' = "selected"
    /\ UNCHANGED <<var_i, obs_start, obs_end, method_scores, good_methods, filled_series,
                   fallback_used, methods_chosen, final, ds, qc_plots, configVars>>

\* Variant: the fallback is taken without looking for its column.
FallbackToDefault_NoColumnCheck ==
    /\ pc = "scored"
    /\ FirstPlausible(days, frame[var_i], good_methods, obs_start, obs_end) = None
    /\ selected_col' = fallback_method
    /\ selected_series' = IF frame[var_i].cols[fallback_method] = Absent
                          THEN [b \in 1..Len(days) |-> NaN]
                          ELSE Restrict(frame[var_i].cols[fallback_method], obs_start, obs_end)
    /\ outcome' = [outcome EXCEPT ![var_i] = "Fallback"]
    /\ stdout' = stdout \cup GateMessages(var_i, good_methods, None)
                        \cup {<<var_i, "Fallback to", fallback_method>>}
    /\ pc' = "selected"
    /\ UNCHANGED <<var_i, obs_start, obs_end, method_scores, good_methods, filled_series,
                   fallback_used, methods_chosen, final, ds, qc_plots, configVars>>

\* Lines 618-624: no method selected, the fallback column is in the frame.
FallbackToDefault ==
    /\ pc = "scored"
    /\ FirstPlausible(days, frame[var_i], good_methods, obs_start, obs_end) = None
    /\ frame[var_i].cols[fallback_method] # Absent
    /\ selected_col' = fallback_method
    /\ selected_series' = Restrict(frame[var_i].cols[fallback_method], obs_start, obs_end)
    /\ outcome' = [outcome EXCEPT ![var_i] = "Fallback"]
    /\ stdout' = stdout \cup GateMessages(var_i, good_methods, None)
                        \cup {<<var_i, "Fallback to", fallback_method>>}
    /\ pc' = "selected"
    /\ UNCHANGED <<var_i, obs_start, obs_end, method_scores, good_methods, filled_series,
                   fallback_used, methods_chosen, final, ds, qc_plots, configVars>>

\* Lines 625-627: no method selected and no fallback column: continue.
NoValidMethod ==
    /\ pc = "scored"
    /\ FirstPlausible(days, frame[var_i], good_methods, obs_start, obs_end) = None
    /\ frame[var_i].cols[fallback_method] = Absent
    /\ outcome' = [outcome EXCEPT ![var_i] = "Rejected"]
    /\ stdout' = stdout \cup GateMessages(var_i, good_methods, None)
                        \cup {<<var_i, "No valid method available", None>>}
    /\ var_i' = var_i + 1
    /\ pc' = "loop"
    /\ UNCHANGED <<obs_start, obs_end, method_scores, good_methods, selected_col,
                   selected_series, filled_series, fallback_used, methods_chosen, final,
                   ds, qc_plots, configVars>>

\* Variant: fallback_used is not reset (line 632) and keeps the donor of the
\* previous variable when the pass fills nothing.
FillGapsAndSave_StaleDonor ==
    /\ pc = "selected"
    /\ LET r == FillGaps(days, frame[var_i], obs_start, obs_end, selected_series)
           used == IF r.used = None /\ var_i > 1 THEN methods_chosen[var_i - 1].donor
                   ELSE r.used
       IN /\ filled_series' = r.series
          /\ fallback_used' = used
          /\ methods_chosen' = [methods_chosen EXCEPT
                                  ![var_i] = [primary |-> selected_col, donor |-> used]]
          /\ final' = [final EXCEPT ![var_i] = r.series]
          /\ stdout' = stdout \cup DonorRejectMessages(var_i, days, frame[var_i], obs_start,
                                                      obs_end, selected_series)
                               \cup GapFillMessages(var_i, used)
          /\ qc_plots' = qc_plots \cup {<<var_i, selected_col, used>>}
    /\ method_scores' =
         IF MissingMask(selected_series, obs_start, obs_end) = {} THEN method_scores
         ELSE [method_scores EXCEPT
                 ![var_i] = DonorScores(days, frame[var_i], obs_start, obs_end, @)]
    /\ var_i' = var_i + 1
    /\ pc' = "loop"
    /\ UNCHANGED <<obs_start, obs_end, good_methods, selected_col, selected_series,
                   outcome, ds, configVars>>

\* Lines 629-677: the gap-fill pass, the decision and the <var>_final column.
FillGapsAndSave ==
    /\ pc = "selected"
    /\ LET r == FillGaps(days, frame[var_i], obs_start, obs_end, selected_series)
       IN /\ filled_series' = r.series
          /\ fallback_used' = r.used
          /\ methods_chosen' = [methods_chosen EXCEPT
                                  ![var_i] = [primary |-> selected_col, donor |-> r.used]]
          /\ final' = [final EXCEPT ![var_i] = r.series]
          /\ stdout' = stdout \cup DonorRejectMessages(var_i, days, frame[var_i], obs_start,
                                                      obs_end, selected_series)
                               \cup GapFillMessages(var_i, r.used)
          /\ qc_plots' = qc_plots \cup {<<var_i, selected_col, r.used>>}
    /\ method_scores' =
         IF MissingMask(selected_series, obs_start, obs_end) = {} THEN method_scores
         ELSE [method_scores EXCEPT
                 ![var_i] = DonorScores(days, frame[var_i], obs_start, obs_end, @)]
    /\ var_i' = var_i + 1
    /\ pc' = "loop"
    /\ UNCHANGED <<obs_start, obs_end, good_methods, selected_col, selected_series,
                   outcome, ds, configVars>>

\* Lines 741-751: the exported dataset holds the *_final columns.
ExportFinal ==
    /\ pc = "loop"
    /\ var_i = NumVars + 1
    /\ ds' = [v \in {x \in Vars : final[x] # Absent} |-> final[v]]
    /\ pc' = "done"
    /\ UNCHANGED <<var_i, obs_start, obs_end, method_scores, good_methods, selected_col,
                   selected_series, filled_series, fallback_used, outcome, methods_chosen,
                   final, stdout, qc_plots, configVars>>

Next ==
    \/ NoObservations /\ UNCHANGED <<alignVars, linearVars, pipeVars, candVars, restVars>>
    \/ ScoreCandidates /\ UNCHANGED <<alignVars, linearVars, pipeVars, candVars, restVars>>
    \/ OutlierCheck /\ UNCHANGED <<alignVars, linearVars, pipeVars, candVars, restVars>>
    \/ FallbackToDefault /\ UNCHANGED <<alignVars, linearVars, pipeVars, candVars, restVars>>
    \/ NoValidMethod /\ UNCHANGED <<alignVars, linearVars, pipeVars, candVars, restVars>>
    \/ FillGapsAndSave /\ UNCHANGED <<alignVars, linearVars, pipeVars, candVars, restVars>>
    \/ ExportFinal /\ UNCHANGED <<alignVars, linearVars, pipeVars, candVars, restVars>>

Init == SelectInit /\ AlignIdle /\ LinearIdle /\ PipeIdle /\ CandIdle /\ RestIdle

Spec == Init /\ [][Next]_vars

\* ------------------------------------------------------------------------
\* Properties of the selection loop
\* ------------------------------------------------------------------------
HasObs(v) == FirstValid(frame[v].obs) # 0

\* The observations and a column of variable v inside its observed span.
SpanObs(v) == Restrict(frame[v].obs, FirstValid(frame[v].obs), LastValid(frame[v].obs))

SpanCol(v, m) == Restrict(frame[v].cols[m], FirstValid(frame[v].obs), LastValid(frame[v].obs))

CandidateSet == {candidate_suffixes[k] : k \in 1..Len(candidate_suffixes)}

DonorSet == {donor_suffixes[k] : k \in 1..Len(donor_suffixes)}

MeetsThreshold(v, m) ==
    IsScored(method_scores[v][m]) /\ R2Geq(method_scores[v][m], R2Threshold)

\* The scored candidates that meet the threshold and pass the plausibility gate.
Eligible(v) ==
    {m \in CandidateSet :
        MeetsThreshold(v, m) /\ ~FailsOutlierCheck(days, SpanObs(v), SpanCol(v, m))}

\* The decision of variable v has been saved.
Saved(v) == methods_chosen[v].primary # None

\* ------------------------------------------------------------------------
\* C3: gate-then-rank.  The primary method of an Accepted variable is a
\* scored candidate that meets the threshold and passes the gate, and no
\* other such candidate has a higher R2; a variable with such a candidate is
\* never left to the fallback branch.
\* ------------------------------------------------------------------------
C3_GateThenRank ==
    \A v \in Vars :
        /\ (outcome[v] = "Accepted" /\ Saved(v)) =>
              /\ methods_chosen[v].primary \in Eligible(v)
              /\ \A m \in Eligible(v) :
                    R2Geq(method_scores[v][methods_chosen[v].primary], method_scores[v][m])
        /\ outcome[v] \in {"Fallback", "Rejected"} => Eligible(v) = {}

\* Witness: the candidate with the highest R2 meets the threshold but fails
\* the gate, and a candidate with a lower R2 is the primary method.
C3_Witness ==
    \E v \in Vars : \E m \in CandidateSet :
        /\ outcome[v] = "Accepted" /\ Saved(v)
        /\ MeetsThreshold(v, m)
        /\ R2Gt(method_scores[v][m], method_scores[v][methods_chosen[v].primary])
        /\ FailsOutlierCheck(days, SpanObs(v), SpanCol(v, m))

\* ------------------------------------------------------------------------
\* C4: the primary method never has an R2 below the threshold when a scored
\* candidate of the variable meets the threshold, whatever branch selected it.
\* ------------------------------------------------------------------------
C4_NoPrimaryBelowThreshold ==
    \A v \in Vars :
        (Saved(v) /\ \E m \in CandidateSet : MeetsThreshold(v, m)) =>
            ~(/\ IsScored(method_scores[v][methods_chosen[v].primary])
              /\ ~R2Geq(method_scores[v][methods_chosen[v].primary], R2Threshold))

\* ------------------------------------------------------------------------
\* C5: no prediction of an Accepted primary method between the first and the
\* last observation exceeds mean(obs) + z_score_limit * std(obs) + tolerance.
\* ------------------------------------------------------------------------
C5_AcceptedWithinBound ==
    \A v \in Vars :
        (outcome[v] = "Accepted" /\ Saved(v)) =>
            \A b \in 1..Len(days) :
                ~ExceedsThreshold(ObsStats(days, SpanObs(v)),
                                  SpanCol(v, methods_chosen[v].primary)[b])

\* Witness: an Accepted primary method that predicts more than the highest
\* observation somewhere in the span (and stays within the bound).
C5_Witness ==
    \E v \in Vars :
        /\ outcome[v] = "Accepted" /\ Saved(v)
        /\ SeriesMax(SpanCol(v, methods_chosen[v].primary)) > SeriesMax(SpanObs(v))

\* ------------------------------------------------------------------------
\* C6: the gap-fill pass changes only rows that were missing in the selected
\* series, and only inside the observed span.
\* ------------------------------------------------------------------------
GapFillDone == filled_series # <<>>

C6_FilledRowsUntouched ==
    GapFillDone =>
        \A b \in 1..Len(days) :
            filled_series[b] # selected_series[b] =>
                IsNaN(selected_series[b]) /\ obs_start <= b /\ b <= obs_end

\* Witness: a donor filled some row of a series that already had values that
\* differ from the donor's.
C6_Witness ==
    /\ GapFillDone
    /\ fallback_used # None
    /\ \E b \in 1..Len(days) : filled_series[b] # selected_series[b]
    /\ \E b \in 1..Len(days) :
          /\ NotNa(selected_series[b])
          /\ NotNa(frame[var_i - 1].cols[fallback_used][b])
          /\ frame[var_i - 1].cols[fallback_used][b] # selected_series[b]

\* ------------------------------------------------------------------------
\* C7: the gap-fill pass is idempotent: run again on its own output, with
\* the same observations, donors and thresholds, it changes no value.
\* ------------------------------------------------------------------------
C7_GapFillIdempotent ==
    GapFillDone =>
        FillGaps(days, frame[var_i - 1], obs_start, obs_end, filled_series).series
            = filled_series

\* ------------------------------------------------------------------------
\* C8: long-gap donor rejection.  When the longest run of still-missing days
\* in the observed span is at least 1460 days, a donor whose predictions are
\* too extreme is never the donor of the gap-fill pass, and when every scored
\* donor is too extreme the series stays as selected and no donor is
\* recorded.  When the longest run is shorter, the check is not applied: the
\* scored donor with the strictly highest R2 is used whenever it has a value
\* on a missing row, however extreme its predictions.
\* ------------------------------------------------------------------------
StillMissing == MissingMask(selected_series, obs_start, obs_end)

LongGap == MaxGapLength(days, StillMissing) >= LongGapDays

ScoredDonors ==
    {m \in DonorSet :
        IsScored(ScoreOf(days, SpanObs(var_i - 1), frame[var_i - 1].cols[m],
                         obs_start, obs_end))}

ExtremeDonor(m) == TooExtreme(SpanObs(var_i - 1), SpanCol(var_i - 1, m))

C8_LongGapDonorRejection ==
    GapFillDone =>
        /\ LongGap =>
              /\ fallback_used # None => ~ExtremeDonor(fallback_used)
              /\ (\A m \in ScoredDonors : ExtremeDonor(m)) =>
                    fallback_used = None /\ filled_series = selected_series
        /\ ~LongGap =>
              \A m \in ScoredDonors :
                  (/\ \A o \in ScoredDonors \ {m} :
                         R2Gt(method_scores[var_i - 1][m], method_scores[var_i - 1][o])
                   /\ \E b \in StillMissing : NotNa(frame[var_i - 1].cols[m][b]))
                  => fallback_used = m

\* Witness: a long gap whose only scored donor is too extreme and covers the
\* gap; the gap stays and no donor is recorded.
C8_Witness ==
    /\ GapFillDone
    /\ LongGap
    /\ ScoredDonors # {}
    /\ \A m \in ScoredDonors : ExtremeDonor(m)
    /\ \E m \in ScoredDonors : \E b \in StillMissing : NotNa(frame[var_i - 1].cols[m][b])
    /\ fallback_used = None

FewPairs(v, m) ==
    /\ HasObs(v)
    /\ frame[v].cols[m] # Absent
    /\ ValidCount(days, SpanObs(v), SpanCol(v, m)) < MinValidPairs

C11_MinValidPairs ==
    \A v \in Vars : \A m \in Suffixes :
        FewPairs(v, m) =>
            /\ ~IsScored(method_scores[v][m])
            /\ ~(outcome[v] = "Accepted" /\ methods_chosen[v].primary = m)
            /\ methods_chosen[v].donor # m

\* Witness: a saved Accepted variable with a donor column of 9 valid pairs
\* that has values on rows the primary method left missing.
C11_Witness ==
    \E v \in Vars : \E m \in DonorSet :
        /\ outcome[v] = "Accepted" /\ Saved(v)
        /\ FewPairs(v, m)
        /\ ValidCount(days, SpanObs(v), SpanCol(v, m)) = MinValidPairs - 1
        /\ \E b \in 1..Len(days) :
              /\ IsNaN(SpanCol(v, methods_chosen[v].primary)[b])
              /\ NotNa(SpanCol(v, m)[b])

\* ------------------------------------------------------------------------
\* The two places where a daily calendar is built: merge_daily_wc_q
\* (interpolate.py) and merge_daily_river_data (fluxes.py), called with the
\* rows of a discharge file that may hold several stations.
\* ------------------------------------------------------------------------
\* The station the run asks for, and another station of the same file.
station_name == "requested"

StationNames == {station_name, "other"}

\* Row i of the discharge file, with its station.
StationQRows(dates, st) ==
    [i \in 1..Len(dates) |->
        [date |-> dates[i], discharge |-> i * AlignScale, river_name |-> st[i]]]

\* interpolate.py lines 112-113: q_df[q_df[station_col] == station_name]
FilterStation(df) == SelectSeq(df, LAMBDA r : r.river_name = station_name)

SitesInit ==
    /\ al_pc \in {"merge_daily_wc_q", "merge_daily_river_data"}
    /\ \E qd \in SeqsUpTo(1..MaxDate, MaxQRows) :
         \E st \in [1..Len(qd) -> StationNames] : q_df = StationQRows(qd, st)
    /\ \E wd \in SeqsUpTo(1..MaxDate, 1) :
         \E pr \in [1..Len(wd) -> BOOLEAN] : wc_df = WcRows(wd, pr)
    /\ agg_df = <<>>

\* interpolate.py lines 109-116: raise ValueError("No discharge rows for station ...")
WcQRaise ==
    /\ al_pc = "merge_daily_wc_q"
    /\ FilterStation(q_df) = <<>>
    /\ al_pc' = "raised"
    /\ UNCHANGED <<q_df, wc_df, agg_df>>

\* interpolate.py lines 109-145
WcQReturn ==
    /\ al_pc = "merge_daily_wc_q"
    /\ FilterStation(q_df) # <<>>
    /\ agg_df' = MergeDailyFrame(FilterStation(q_df), wc_df)
    /\ al_pc' = "returned"
    /\ UNCHANGED <<q_df, wc_df>>

\* fluxes.py lines 96-98: no row at all; q_df[date_col].min() is NaT and
\* pd.date_range(start=NaT, end=NaT) raises pandas' own ValueError
\* ("Neither `start` nor `end` can be NaT").
RiverDataRaise ==
    /\ al_pc = "merge_daily_river_data"
    /\ q_df = <<>>
    /\ al_pc' = "raised_NaT"
    /\ UNCHANGED <<q_df, wc_df, agg_df>>

\* fluxes.py lines 96-116: station_name is not used, the calendar spans the
\* dates of every row of the discharge file.
RiverDataReturn ==
    /\ al_pc = "merge_daily_river_data"
    /\ q_df # <<>>
    /\ agg_df' = MergeDailyFrame(q_df, wc_df)
    /\ al_pc' = "returned"
    /\ UNCHANGED <<q_df, wc_df>>

SitesNext ==
    \/ WcQRaise /\ UNCHANGED <<linearVars, selectVars, pipeVars, candVars, restVars>>
    \/ WcQReturn /\ UNCHANGED <<linearVars, selectVars, pipeVars, candVars, restVars>>
    \/ RiverDataRaise /\ UNCHANGED <<linearVars, selectVars, pipeVars, candVars, restVars>>
    \/ RiverDataReturn /\ UNCHANGED <<linearVars, selectVars, pipeVars, candVars, restVars>>

InitSites == SitesInit /\ LinearIdle /\ SelectIdle /\ PipeIdle /\ CandIdle /\ RestIdle

SpecSites == InitSites /\ [][SitesNext]_vars

\* ------------------------------------------------------------------------
\* C12: at both places, a requested station without discharge rows ends in
\* the dedicated no-discharge error and no calendar is produced.
\* ------------------------------------------------------------------------
C12_NoDischargeError ==
    (al_pc \in {"returned", "raised", "raised_NaT"} /\ FilterStation(q_df) = <<>>) =>
        al_pc = "raised" /\ agg_df = <<>>

\* ------------------------------------------------------------------------
\* interpolate(): the reconstruction stages (lines 475-506), by the columns
\* they add for each configured variable.
\* ------------------------------------------------------------------------
\* "order": None of interpolation.linear (a given order is >= 1).
NoOrder == 0

LinearMethods == {"linear", "spline", "polynomial"}

OrderChoices == {NoOrder, 2}

\* What `merged` holds for a variable: no observation; observations on days
\* without discharge only; one day with observation and discharge; or at
\* least two such days in one calendar month.
TrainKinds == {"none", "no_discharge", "one", "many"}

OrderError == "ValueError: requires 'order'"

KeyError == "KeyError: not in index"

PipeInit ==
    /\ pl_pc = "linear"
    /\ chem_variables \in SUBSET Vars
    /\ merged_cols \in SUBSET chem_variables
    /\ linear_cfg \in [method : LinearMethods, order : OrderChoices]
    /\ have_pygam \in BOOLEAN
    /\ train_rows \in [Vars -> TrainKinds]
    /\ \A v \in Vars \ merged_cols : train_rows[v] = "none"
    /\ gam_raises \in [Vars -> BOOLEAN]
    /\ \A v \in Vars : gam_raises[v] => train_rows[v] \in {"one", "many"}
    /\ pl_cols = {}
    /\ pl_error = None

\* interpolate_with_gap_limit, line 148
RequiresOrder(method, order) == method \in {"spline", "polynomial"} /\ order = NoOrder

\* interpolate_station_df, lines 173-176: the check runs inside the call made
\* for a variable that is a column of the frame.
LinearRaise ==
    /\ pl_pc = "linear"
    /\ merged_cols # {}
    /\ RequiresOrder(linear_cfg.method, linear_cfg.order)
    /\ pl_pc' = "raised"
    /\ pl_error' = OrderError
    /\ UNCHANGED <<chem_variables, merged_cols, linear_cfg, have_pygam, train_rows,
                   gam_raises, pl_cols>>

LinearStage ==
    /\ pl_pc = "linear"
    /\ ~(merged_cols # {} /\ RequiresOrder(linear_cfg.method, linear_cfg.order))
    /\ pl_cols' = pl_cols \cup {<<v, "linear_interp">> : v \in merged_cols}
    /\ pl_pc' = "gam"
    /\ UNCHANGED <<chem_variables, merged_cols, linear_cfg, have_pygam, train_rows,
                   gam_raises, pl_error>>

\* compute_gam returns a frame (not None): lines 189-212.
GamProduced(v) ==
    /\ have_pygam
    /\ train_rows[v] \in {"one", "many"}
    /\ ~gam_raises[v]

\* apply_gam_to_df without the guards of compute_gam: the first variable
\* whose GAM cannot be fitted ends the run.
GamStage_Propagates ==
    /\ pl_pc = "gam"
    /\ IF \A v \in merged_cols : GamProduced(v)
       THEN /\ pl_cols' = pl_cols \cup {<<v, "annual_gam">> : v \in merged_cols}
            /\ pl_pc' = "regres"
            /\ pl_error' = pl_error
       ELSE /\ pl_cols' = pl_cols
            /\ pl_pc' = "raised"
            /\ pl_error' = "GAM failed"
    /\ UNCHANGED <<chem_variables, merged_cols, linear_cfg, have_pygam, train_rows,
                   gam_raises>>

\* apply_gam_to_df, lines 242-255
GamStage ==
    /\ pl_pc = "gam"
    /\ pl_cols' = pl_cols \cup {<<v, "annual_gam">> : v \in {x \in merged_cols : GamProduced(x)}}
    /\ pl_pc' = "regres"
    /\ UNCHANGED <<chem_variables, merged_cols, linear_cfg, have_pygam, train_rows,
                   gam_raises, pl_error>>

\* monthwise_loglog_regressions, lines 310-338: a column for a variable with
\* a month of at least two training rows.
RegresStage ==
    /\ pl_pc = "regres"
    /\ pl_cols' = pl_cols \cup
          {<<v, "monthly_regres">> : v \in {x \in merged_cols : train_rows[x] = "many"}}
    /\ pl_pc' = "monthly"
    /\ UNCHANGED <<chem_variables, merged_cols, linear_cfg, have_pygam, train_rows,
                   gam_raises, pl_error>>

\* monthly_medians_to_daily_all_years, line 290: ydf[variables] raises
\* KeyError when a configured variable is no column of the frame.
MonthlyRaise ==
    /\ pl_pc = "monthly"
    /\ ~(chem_variables \subseteq merged_cols)
    /\ pl_pc' = "raised"
    /\ pl_error' = KeyError
    /\ UNCHANGED <<chem_variables, merged_cols, linear_cfg, have_pygam, train_rows,
                   gam_raises, pl_cols>>

MonthlyStage ==
    /\ pl_pc = "monthly"
    /\ chem_variables \subseteq merged_cols
    /\ pl_cols' = pl_cols \cup {<<v, "monthly_interp">> : v \in chem_variables}
    /\ pl_pc' = "combine"
    /\ UNCHANGED <<chem_variables, merged_cols, linear_cfg, have_pygam, train_rows,
                   gam_raises, pl_error>>

PipeNext ==
    \/ LinearRaise /\ UNCHANGED <<alignVars, linearVars, selectVars, candVars, restVars>>
    \/ LinearStage /\ UNCHANGED <<alignVars, linearVars, selectVars, candVars, restVars>>
    \/ GamStage /\ UNCHANGED <<alignVars, linearVars, selectVars, candVars, restVars>>
    \/ RegresStage /\ UNCHANGED <<alignVars, linearVars, selectVars, candVars, restVars>>
    \/ MonthlyRaise /\ UNCHANGED <<alignVars, linearVars, selectVars, candVars, restVars>>
    \/ MonthlyStage /\ UNCHANGED <<alignVars, linearVars, selectVars, candVars, restVars>>

InitPipe == PipeInit /\ AlignIdle /\ LinearIdle /\ SelectIdle /\ CandIdle /\ RestIdle

SpecPipe == InitPipe /\ [][PipeNext]_vars

\* ------------------------------------------------------------------------
\* C13: a configuration whose linear method is 'spline' or 'polynomial'
\* without an order always ends in the order error, raised before any
\* candidate column is computed: the run never gets past the linear stage.
\* ------------------------------------------------------------------------
C13_OrderRejectedFirst ==
    RequiresOrder(linear_cfg.method, linear_cfg.order) =>
        /\ pl_pc \in {"linear", "raised"}
        /\ pl_pc = "raised" => pl_error = OrderError /\ pl_cols = {}

\* ------------------------------------------------------------------------
\* C14: what interpolate() returns and writes tells the decision taken for
\* every variable with observations: the run ends with a record of the
\* variable in its written output, and that record names the primary method
\* and the donor and tells a fallback from an accepted method.
\* ------------------------------------------------------------------------
C14_ProvenanceInOutput ==
    pc = "done" =>
        \A v \in Vars :
            outcome[v] \in {"Accepted", "Fallback", "Rejected"} =>
                \E e \in qc_plots : e[1] = v

\* ------------------------------------------------------------------------
\* C15: the final series of an Accepted variable carries the prediction of
\* its primary method on every calendar row where that method has one, also
\* before the first and after the last observation.
\* ------------------------------------------------------------------------
C15_FullPredictedSeries ==
    \A v \in Vars :
        (outcome[v] = "Accepted" /\ Saved(v)) =>
            \A b \in 1..Len(days) :
                NotNa(frame[v].cols[methods_chosen[v].primary][b]) =>
                    final[v][b] = frame[v].cols[methods_chosen[v].primary][b]

\* ------------------------------------------------------------------------
\* The selection loop on stations whose fully enumerated variable stands at
\* any position of chem_variables: the same variables in different orders.
\* ------------------------------------------------------------------------
OrderFrames(d, limit) ==
    {MkFrame(ObsFull, LinearColumn(ObsFull, d, limit), g, r, m) :
        <<g, r, m>> \in
            ({Absent} \cup {MethodColumn(NaN, pr) :
                              pr \in {<<"exact", 6, 6>>, <<"exact", 60, 6>>, <<"near", 20, 6>>}})
            \X ({Absent} \cup {MethodColumn(NaN, pr) :
                                 pr \in {<<"near", 6, NaN>>, <<"poor", 1, 1>>}})
            \X {MethodColumn(6, pr) : pr \in {<<"exact", NaN, NaN>>, <<"poor", 6, 6>>}}}

OrderInit ==
    /\ pc = "loop"
    /\ \E g \in GapDayChoices : days = Layout(g)
    /\ fallback_method \in FallbackChoices
    /\ \E limit \in MaxGapChoices : \E k \in Vars :
         \E focus \in OrderFrames(days, limit) \cup {NoObsFrame} :
           \E rest \in [Vars -> PlainFrames(days, limit)] :
              frame = [v \in Vars |-> IF v = k THEN focus ELSE rest[v]]
    /\ var_i = 1
    /\ obs_start = 0
    /\ obs_end = 0
    /\ method_scores = [v \in Vars |-> [m \in Suffixes |-> NoScore]]
    /\ good_methods = <<>>
    /\ selected_col = None
    /\ selected_series = <<>>
    /\ filled_series = <<>>
    /\ fallback_used = None
    /\ outcome = [v \in Vars |-> "Pending"]
    /\ methods_chosen = [v \in Vars |-> [primary |-> None, donor |-> None]]
    /\ final = [v \in Vars |-> Absent]
    /\ ds = <<>>
    /\ stdout = {}
    /\ qc_plots = {}

InitOrder == OrderInit /\ AlignIdle /\ LinearIdle /\ PipeIdle /\ CandIdle /\ RestIdle

SpecOrder == InitOrder /\ [][Next]_vars

\* The decision for one variable as a function of the calendar, the
\* variable's own columns and the configuration.
SelectVariable(d, fr, fb) ==
    IF FirstValid(fr.obs) = 0
    THEN [outcome |-> "NoData", primary |-> None, donor |-> None, final |-> Absent]
    ELSE LET lo == FirstValid(fr.obs)
             hi == LastValid(fr.obs)
             m == FirstPlausible(d, fr, GoodMethods(CandidateScores(d, fr, lo, hi)), lo, hi)
             sel == IF m # None THEN m ELSE fb
         IN IF m = None /\ fr.cols[fb] = Absent
            THEN [outcome |-> "Rejected", primary |-> None, donor |-> None, final |-> Absent]
            ELSE LET r == FillGaps(d, fr, lo, hi, Restrict(fr.cols[sel], lo, hi))
                 IN [outcome |-> IF m # None THEN "Accepted" ELSE "Fallback",
                     primary |-> sel, donor |-> r.used, final |-> r.series]

\* ------------------------------------------------------------------------
\* C16: the primary method, the donor and the final series of a variable
\* depend only on the calendar, the configuration and the variable's own
\* columns, whatever its position in chem_variables and whatever the other
\* variables are.
\* ------------------------------------------------------------------------
C16_OrderIndependent ==
    pc = "done" =>
        \A v \in Vars :
            LET r == SelectVariable(days, frame[v], fallback_method)
            IN /\ outcome[v] = r.outcome
               /\ methods_chosen[v] = [primary |-> r.primary, donor |-> r.donor]
               /\ final[v] = r.final

\* Witness: the fully enumerated variable stands last, falls back and uses
\* a donor, after a variable that was saved without donor.
C16_Witness ==
    /\ pc = "done"
    /\ \E v \in Vars : \E w \in Vars :
          /\ v < w
          /\ methods_chosen[v].donor = None /\ Saved(v)
          /\ methods_chosen[w].donor # None
          /\ outcome[w] = "Fallback"

\* ------------------------------------------------------------------------
\* C17: every configured chemistry variable is a data variable of the
\* exported dataset.
\* ------------------------------------------------------------------------
C17_AllVariablesExported ==
    pc = "done" => \A v \in Vars : v \in DOMAIN ds

\* ------------------------------------------------------------------------
\* compute_gam, monthwise_loglog_regressions,
\* monthly_medians_to_daily_all_years  (the values of the candidate columns)
\* ------------------------------------------------------------------------
\* The station calendar is NumYears years of 2 months of 3 days each; day 2
\* of a month is its mid-month day.
NumYears == 2

CalDays == 1..(6 * NumYears)

\* date.dt.year
YearOf(i) == ((i - 1) \div 6) + 1

\* date.dt.month
MonthOf(i) == (((i - 1) \div 3) % 2) + 1

\* The observations of one month: none; two, after a day without one; one;
\* two negative ones.
MonthObs == {<<NaN, NaN, NaN>>, <<NaN, 24, 24>>, <<24, NaN, NaN>>, <<0 - 24, 0 - 24, NaN>>}

ObsChoices ==
    {[i \in CalDays |-> f[((i - 1) \div 3) + 1][((i - 1) % 3) + 1]] :
        f \in [1..(2 * NumYears) -> MonthObs]}

\* Discharge on every day, or on every day but the mid-month days.
DischargeChoices ==
    {[i \in CalDays |-> 5], [i \in CalDays |-> IF (i - 1) % 3 = 1 THEN NaN ELSE 5]}

\* What a fitted model predicts for the days of one month of the year: any
\* real number, here a negative and a positive one.
FitValues == {0 - 2, 1}

CandInit ==
    /\ cd_pc = "call"
    /\ cd_col = <<>>
    /\ cd_obs \in ObsChoices
    /\ \/ /\ cd_fn \in {"compute_gam", "monthwise_loglog_regressions"}
          /\ cd_q \in DischargeChoices
          /\ cd_fit \in [1..2 -> FitValues]
       \/ /\ cd_fn = "monthly_medians_to_daily_all_years"
          /\ cd_q = [i \in CalDays |-> 5]
          /\ cd_fit = <<>>

\* dropna(subset=[var, discharge_col])
TrainRows(obs, q) == {i \in DOMAIN obs : NotNa(obs[i]) /\ NotNa(q[i])}

\* yp[yp < 0] = 0
ClampPrediction_Off(y) == y

ClampPrediction(y) == IF y < 0 THEN 0 ELSE y

\* compute_gam with the library present and a fit that succeeds: the rows
\* with discharge between the first and the last training row are predicted.
compute_gam(obs, q, fit) ==
    LET train == TrainRows(obs, q) IN
    IF train = {} THEN Absent
    ELSE LET first == SetMin(train)
             last == SetMax(train)
         IN [i \in DOMAIN obs |->
                IF NotNa(q[i]) /\ i >= first /\ i <= last
                THEN ClampPrediction(fit[MonthOf(i)])
                ELSE NaN]

CallComputeGam ==
    /\ cd_pc = "call"
    /\ cd_fn = "compute_gam"
    /\ cd_col' = compute_gam(cd_obs, cd_q, cd_fit)
    /\ cd_pc' = "returned"
    /\ UNCHANGED <<cd_fn, cd_obs, cd_q, cd_fit>>
    /\ UNCHANGED <<alignVars, linearVars, selectVars, pipeVars, restVars>>

\* sub.loc[first:last], first and last the first and last observation.
ObservedSpan(obs) ==
    LET valid == {i \in DOMAIN obs : NotNa(obs[i])} IN
    IF valid = {} THEN {} ELSE SetMin(valid)..SetMax(valid)

\* One group of sub.groupby("month"): the days of the span in month m of
\* any year.
MonthGroup(obs, m) == {i \in ObservedSpan(obs) : MonthOf(i) = m}

\* The months of the year a regression is fitted for.
FittedMonth(obs, q, m) == Cardinality(MonthGroup(obs, m) \cap TrainRows(obs, q)) >= 2

\* np.power(10.0, yhat_log), in hundredths.
Pow10(x) == 10 ^ (x + 2)

\* Prediction on the training rows only (X instead of X_all).
PredictedRows_TrainOnly(obs, q) ==
    LET fitted == {m \in 1..2 : FittedMonth(obs, q, m)} IN
    {i \in ObservedSpan(obs) \cap TrainRows(obs, q) : MonthOf(i) \in fitted}

\* The rows the regressions predict: every row of the group of a fitted month.
PredictedRows(obs, q) ==
    LET fitted == {m \in 1..2 : FittedMonth(obs, q, m)} IN
    {i \in ObservedSpan(obs) : MonthOf(i) \in fitted}

\* monthwise_loglog_regressions, as the column it leaves on the calendar.
monthwise_loglog_regressions(obs, q, fit) ==
    LET rows == PredictedRows(obs, q) IN
    IF rows = {} THEN Absent
    ELSE [i \in DOMAIN obs |-> IF i \in rows THEN Pow10(fit[MonthOf(i)]) ELSE NaN]

CallMonthwiseRegressions ==
    /\ cd_pc = "call"
    /\ cd_fn = "monthwise_loglog_regressions"
    /\ cd_col' = monthwise_loglog_regressions(cd_obs, cd_q, cd_fit)
    /\ cd_pc' = "returned"
    /\ UNCHANGED <<cd_fn, cd_obs, cd_q, cd_fit>>
    /\ UNCHANGED <<alignVars, linearVars, selectVars, pipeVars, restVars>>

\* A sequence of integers, ascending.
RECURSIVE AscendingSeq(_)
AscendingSeq(s) ==
    IF s = <<>> THEN <<>>
    ELSE LET m == SetMin({s[i] : i \in DOMAIN s})
             k == CHOOSE i \in DOMAIN s : s[i] = m
         IN <<m>> \o AscendingSeq(SubSeq(s, 1, k - 1) \o SubSeq(s, k + 1, Len(s)))

\* median() of the values of one month, NaN skipped.
Median(vals) ==
    LET srt == AscendingSeq(SelectSeq(vals, NotNa))
        n == Len(srt)
    IN IF n = 0 THEN NaN
       ELSE IF n % 2 = 1 THEN srt[(n + 1) \div 2]
       ELSE (srt[n \div 2] + srt[(n \div 2) + 1]) \div 2

\* ydf[variables].resample("M").median() for year y.
MonthlyMedians(obs, y) ==
    [m \in 1..2 |-> Median(SubSeq(obs, (6 * (y - 1)) + (3 * (m - 1)) + 1, (6 * (y - 1)) + (3 * m)))]

\* lambda x: 0 if pd.notna(x) and x < 0 else x
ClampValue(x) == IF NotNa(x) /\ x < 0 THEN 0 ELSE x

\* monthly_to_daily_for_year without the seeding of the two ends.
monthly_to_daily_for_year_NoSeed(monthly) ==
    LET tmp == [d \in 1..6 |-> IF (d - 1) % 3 = 1 THEN monthly[((d - 1) \div 3) + 1] ELSE NaN]
        daily == interpolate_with_gap_limit(tmp, Len(tmp))
    IN [d \in 1..6 |-> ClampValue(daily[d])]

\* monthly_to_daily_for_year: mid-month anchors, both ends of the year
\* seeded from the first and the last anchor, interpolation in time, clamp.
monthly_to_daily_for_year(monthly) ==
    LET tmp == [d \in 1..6 |-> IF (d - 1) % 3 = 1 THEN monthly[((d - 1) \div 3) + 1] ELSE NaN]
        jan15 == tmp[2]
        dec15 == tmp[5]
        end_val == IF IsNaN(jan15) \/ IsNaN(dec15) THEN NaN
                   ELSE ((jan15 - dec15) \div 2) + dec15
        seeded == [tmp EXCEPT ![1] = end_val, ![6] = end_val]
        daily == interpolate_with_gap_limit(seeded, Len(seeded))
    IN [d \in 1..6 |-> ClampValue(daily[d])]

monthly_medians_to_daily_all_years(obs) ==
    LET daily_chunks == [y \in 1..NumYears |-> monthly_to_daily_for_year(MonthlyMedians(obs, y))]
    IN [i \in DOMAIN obs |-> daily_chunks[YearOf(i)][((i - 1) % 6) + 1]]

CallMonthlyMedians ==
    /\ cd_pc = "call"
    /\ cd_fn = "monthly_medians_to_daily_all_years"
    /\ cd_col' = monthly_medians_to_daily_all_years(cd_obs)
    /\ cd_pc' = "returned"
    /\ UNCHANGED <<cd_fn, cd_obs, cd_q, cd_fit>>
    /\ UNCHANGED <<alignVars, linearVars, selectVars, pipeVars, restVars>>

CandNext ==
    \/ CallComputeGam
    \/ CallMonthwiseRegressions
    \/ CallMonthlyMedians

InitCand == CandInit /\ AlignIdle /\ LinearIdle /\ SelectIdle /\ PipeIdle /\ RestIdle

SpecCand == InitCand /\ [][CandNext]_vars

\* C18: no candidate series contains a negative value: every prediction of
\* compute_gam, every prediction of monthwise_loglog_regressions and every
\* value of the monthly-median profile is >= 0 (or missing), whatever the
\* observations, the discharge and the fitted model.
C18_NoNegativeCandidate ==
    (cd_pc = "returned" /\ cd_col # Absent) =>
        \A i \in DOMAIN cd_col : IsNaN(cd_col[i]) \/ cd_col[i] >= 0

\* Witness: compute_gam returned a column in which a negative prediction
\* of the fitted model stands as 0.
C18_Witness ==
    /\ cd_pc = "returned"
    /\ cd_fn = "compute_gam"
    /\ cd_col # Absent
    /\ \E i \in DOMAIN cd_col : cd_fit[MonthOf(i)] < 0 /\ cd_col[i] = 0
\* ------------------------------------------------------------------------
\* C19: the GAM is a soft dependency.  For a variable of the frame whose GAM
\* is not produced (library missing, no training row, or the fit raises)
\* there is no annual_gam column; the run is ended by no error other than
\* the order error of the linear stage and the KeyError of a configured
\* variable that is no column; and the stages still add the annual_gam
\* column of every other variable and the columns of the other methods.
\* ------------------------------------------------------------------------
C19_GamSoftDependency ==
    \A v \in merged_cols :
        ~GamProduced(v) =>
            /\ <<v, "annual_gam">> \notin pl_cols
            /\ pl_pc = "raised" =>
                  \/ pl_error = OrderError /\ RequiresOrder(linear_cfg.method, linear_cfg.order)
                  \/ pl_error = KeyError /\ ~(chem_variables \subseteq merged_cols)
            /\ pl_pc \in {"regres", "monthly", "combine"} =>
                  \A w \in merged_cols :
                      /\ GamProduced(w) => <<w, "annual_gam">> \in pl_cols
                      /\ <<w, "linear_interp">> \in pl_cols
            /\ pl_pc \in {"monthly", "combine"} =>
                  \A w \in merged_cols :
                      train_rows[w] = "many" => <<w, "monthly_regres">> \in pl_cols
            /\ pl_pc = "combine" =>
                  \A w \in merged_cols : <<w, "monthly_interp">> \in pl_cols

\* Witness: all stages ran; the fit of one variable raised, and another
\* variable has its annual_gam column.
C19_Witness ==
    /\ pl_pc = "combine"
    /\ \E v \in merged_cols :
          /\ gam_raises[v]
          /\ <<v, "annual_gam">> \notin pl_cols
          /\ <<v, "monthly_regres">> \in pl_cols
          /\ \E w \in merged_cols \ {v} : <<w, "annual_gam">> \in pl_cols
\* ------------------------------------------------------------------------
\* C20: monthwise_loglog_regressions
\* ------------------------------------------------------------------------
\* Month m of the year has at least 2 rows with observation and discharge.
HasTrainingRows(m) ==
    Cardinality({j \in TrainRows(cd_obs, cd_q) : MonthOf(j) = m}) >= 2

\* Day i carries a prediction in the column that was returned.
Predicted(i) == cd_col # Absent /\ NotNa(cd_col[i])

RegressionsReturned == cd_pc = "returned" /\ cd_fn = "monthwise_loglog_regressions"

\* C20 (as stated): the regressions skip every month of the year with fewer
\* than 2 valid training rows, and for every other month they predict all
\* calendar days of that month in the station calendar, the days outside
\* the variable's first-to-last observed span included.
C20_PredictsWholeMonth ==
    RegressionsReturned =>
        LET trained == {m \in 1..2 : HasTrainingRows(m)} IN
        \A i \in CalDays : Predicted(i) <=> MonthOf(i) \in trained

\* C20 (amended): the regressions skip every month of the year with fewer
\* than 2 valid training rows, and for every other month they predict
\* exactly the days of that month that lie within the variable's first-to-
\* last observed span, with or without observation or discharge on the day.
C20_PredictsMonthWithinSpan ==
    RegressionsReturned =>
        LET trained == {m \in 1..2 : HasTrainingRows(m)} IN
        \A i \in CalDays :
            Predicted(i) <=>
                /\ MonthOf(i) \in trained
                /\ \E a \in 1..i : NotNa(cd_obs[a])
                /\ \E b \in i..Len(cd_obs) : NotNa(cd_obs[b])

\* Witness: a day without observation and without discharge is predicted,
\* a day of the same month of the year before the first observation is
\* not, and the other month of the year is skipped.
C20_Witness ==
    /\ RegressionsReturned
    /\ \E i, j \in CalDays :
          /\ MonthOf(i) = MonthOf(j)
          /\ Predicted(i) /\ IsNaN(cd_obs[i]) /\ IsNaN(cd_q[i])
          /\ ~Predicted(j) /\ \A a \in 1..j : IsNaN(cd_obs[a])
    /\ \E k \in CalDays : ~HasTrainingRows(MonthOf(k)) /\ NotNa(cd_obs[k]) /\ ~Predicted(k)
\* ------------------------------------------------------------------------
\* monthly_to_daily_for_year: the date a monthly median is placed on
\* ------------------------------------------------------------------------
\* Number of years that are enumerated.
NumAnchorYears == 6

\* The years include a leap year that is a multiple of 400 and one that is not.
AnchorYears == 1999..(1998 + NumAnchorYears)

IsLeap(y) == y % 4 = 0 /\ (y % 100 # 0 \/ y % 400 = 0)

DaysInMonth(y, m) ==
    IF m = 2 THEN (IF IsLeap(y) THEN 29 ELSE 28)
    ELSE IF m \in {4, 6, 9, 11} THEN 30
    ELSE 31

\* Days from January 1 of year y to day d of month m, that day included.
RECURSIVE Ordinal(_, _, _)
Ordinal(y, m, d) == IF m = 1 THEN d ELSE DaysInMonth(y, m - 1) + Ordinal(y, m - 1, d)

\* The <<month, day>> of the n-th day of year y.
RECURSIVE DateOf(_, _, _)
DateOf(y, m, n) == IF n <= DaysInMonth(y, m) THEN <<m, n>> ELSE DateOf(y, m + 1, n - DaysInMonth(y, m))

\* pd.to_datetime("<m>-<year>", format="%m-%Y") + pd.offsets.MonthBegin(1)
\* - pd.Timedelta("17D"): the first of the month, rolled forward to the first
\* of the next month, less 17 days.
AnchorDate(y, m) ==
    LET first == Ordinal(y, m, 1)
        next_begin == first + DaysInMonth(y, m)
    IN DateOf(y, 1, next_begin - 17)

AnchorInit ==
    /\ mm_pc = "call"
    /\ mm_year \in AnchorYears
    /\ mm_month \in 1..12
    /\ mm_anchor = <<>>

PlaceAnchor ==
    /\ mm_pc = "call"
    /\ mm_anchor' = AnchorDate(mm_year, mm_month)
    /\ mm_pc' = "returned"
    /\ UNCHANGED <<mm_year, mm_month>>
    /\ UNCHANGED <<coreVars, aggVars, fluxVars, runVars, tileVars, cmdVars, errVars>>

AnchorNext == PlaceAnchor

InitAnchor == AnchorInit /\ CoreIdle /\ AggIdle /\ FluxIdle /\ RunIdle /\ TileIdle /\ CmdIdle /\ ErrIdle

SpecAnchor == InitAnchor /\ [][AnchorNext]_vars

\* C21: the monthly median of every month of every year is placed on the
\* 15th day of that month, whatever the length of the month.
C21_AnchorOnThe15th ==
    mm_pc = "returned" => mm_anchor = <<mm_month, 15>>
\* ------------------------------------------------------------------------
\* C22: the seeds of January 1 and December 31
\* ------------------------------------------------------------------------
MediansReturned == cd_pc = "returned" /\ cd_fn = "monthly_medians_to_daily_all_years"

\* The median of the first and of the last month of year y.
JanMedian(y) == MonthlyMedians(cd_obs, y)[1]

DecMedian(y) == MonthlyMedians(cd_obs, y)[2]

\* The value of the first and of the last day of year y in the result.
Jan1(y) == cd_col[(6 * (y - 1)) + 1]

Dec31(y) == cd_col[6 * y]

\* C22 (as stated): December 31 of a year and January 1 of the next year
\* carry the same seed, the average of that December's and that January's
\* mid-month value, so that the series has no jump at the year boundary.
C22_SeedAcrossYearBoundary ==
    MediansReturned =>
        \A y \in 1..(NumYears - 1) :
            (NotNa(JanMedian(y)) /\ NotNa(DecMedian(y))
                /\ NotNa(JanMedian(y + 1)) /\ NotNa(DecMedian(y + 1))) =>
                /\ Dec31(y) = ClampValue((DecMedian(y) + JanMedian(y + 1)) \div 2)
                /\ Jan1(y + 1) = Dec31(y)

\* C22 (amended): January 1 and December 31 of a year are both seeded
\* with the average of that same year's January and December mid-month
\* value (negative clamped to 0) when both exist; when one of them is
\* missing neither end is seeded: January 1 stays missing and December 31
\* carries the last mid-month value of the year, if any.
C22_SeedWithinYear ==
    MediansReturned =>
        \A y \in 1..NumYears :
            LET jan15 == JanMedian(y)
                dec15 == DecMedian(y)
            IN IF NotNa(jan15) /\ NotNa(dec15)
               THEN /\ Jan1(y) = ClampValue((jan15 + dec15) \div 2)
                    /\ Dec31(y) = Jan1(y)
               ELSE /\ IsNaN(Jan1(y))
                    /\ Dec31(y) = IF NotNa(dec15) THEN ClampValue(dec15) ELSE ClampValue(jan15)

\* Witness: two consecutive years with all four mid-month values, seeded
\* from their own year, and the series jumps at the year boundary.
C22_Witness ==
    /\ MediansReturned
    /\ \E y \in 1..(NumYears - 1) :
          /\ NotNa(JanMedian(y)) /\ NotNa(DecMedian(y))
          /\ NotNa(JanMedian(y + 1)) /\ NotNa(DecMedian(y + 1))
          /\ JanMedian(y) # DecMedian(y)
          /\ Dec31(y) = ClampValue((JanMedian(y) + DecMedian(y)) \div 2)
          /\ Jan1(y + 1) # Dec31(y)
\* ------------------------------------------------------------------------
\* flux(): monthly and annual aggregates (fluxes.py, lines 597-603)
\* ------------------------------------------------------------------------
\* sum(min_count=25) of resample("M")
MonthlyMinCount == 25

\* sum(min_count=350) of resample("Y")
AnnualMinCount == 350

\* The run of valid days of a period starts at one of the offsets
\* 0..MaxOffset and wraps around the end of the period.
MaxOffset == 1

\* The number of daily rows of one period: the months of the calendar, a
\* month cut short by the first or the last day of the calendar, the years.
PeriodLengths(freq) == IF freq = "M" THEN {20, 28, 29, 30, 31} ELSE {300, 365, 366}

\* A period of len days of which k are valid, from day o + 1 on; day i
\* carries the flux i.
DailyFluxes(len, k, o) ==
    [i \in 1..len |-> IF ((i - 1 - o) + len) % len < k THEN i ELSE NaN]

AggInit ==
    /\ ag_pc = "call"
    /\ ag_freq \in {"M", "Y"}
    /\ \E len \in PeriodLengths(ag_freq), o \in 0..MaxOffset :
          \E k \in 0..len : ag_daily = DailyFluxes(len, k, o)
    /\ ag_out = 0

\* The number of non-missing values of s.
CountValid(s) == Cardinality({i \in DOMAIN s : NotNa(s[i])})

\* The sum of the non-missing values of s[lo..hi] (by halves).
RECURSIVE SumValid(_, _, _)
SumValid(s, lo, hi) ==
    IF lo > hi THEN 0
    ELSE IF lo = hi THEN (IF NotNa(s[lo]) THEN s[lo] ELSE 0)
    ELSE LET mid == (lo + hi) \div 2 IN SumValid(s, lo, mid) + SumValid(s, mid + 1, hi)

\* Resampler.sum without min_count: the sum of what is there.
ResampleSum_Partial(s, min_count) == SumValid(s, 1, Len(s))

\* Resampler.sum(min_count=...): NaN with fewer than min_count valid values.
ResampleSum(s, min_count) ==
    IF CountValid(s) < min_count THEN NaN ELSE SumValid(s, 1, Len(s))

MinCountOf(freq) == IF freq = "M" THEN MonthlyMinCount ELSE AnnualMinCount

Aggregate ==
    /\ ag_pc = "call"
    /\ ag_out' = ResampleSum(ag_daily, MinCountOf(ag_freq))
    /\ ag_pc' = "returned"
    /\ UNCHANGED <<ag_freq, ag_daily>>
    /\ UNCHANGED <<coreVars, anchorVars, fluxVars, runVars, tileVars, cmdVars, errVars>>

AggNext == Aggregate

InitAgg == AggInit /\ CoreIdle /\ AnchorIdle /\ FluxIdle /\ RunIdle /\ TileIdle /\ CmdIdle /\ ErrIdle

SpecAgg == InitAgg /\ [][AggNext]_vars

\* The valid days of the period that was aggregated.
ValidDays == {i \in DOMAIN ag_daily : NotNa(ag_daily[i])}

\* C23: the monthly (annual) aggregate is the sum of the daily fluxes of the
\* period when the period has at least 25 (350) non-missing daily values;
\* with fewer valid days it is missing, never a partial sum.
C23_NoPartialSum ==
    ag_pc = "returned" =>
        IF Cardinality(ValidDays) >= (IF ag_freq = "M" THEN 25 ELSE 350)
        THEN ag_out = SumValid(ag_daily, 1, Len(ag_daily))
        ELSE IsNaN(ag_out)

\* Witness: a month with some but fewer than 25 valid days has a missing
\* aggregate.
C23_Witness ==
    /\ ag_pc = "returned"
    /\ ag_freq = "M"
    /\ Cardinality(ValidDays) \in 1..24
    /\ Len(ag_daily) >= 28
    /\ IsNaN(ag_out)
\* ------------------------------------------------------------------------
\* compute_fluxes (fluxes.py, lines 135-182)
\* ------------------------------------------------------------------------
\* Number of daily rows of the frame.
MaxFluxDays == 1

\* The variable columns of the frame, in the order of df.columns.
FluxColumns == <<"TOC", "TotP">>

\* A unit is the sequence of its characters; "micro" stands for the micro
\* sign and "mu" for the Greek letter mu.
Unit_mg_l == <<"m", "g", "/", "l">>

Unit_mg_L == <<"m", "g", "/", "L">>

Unit_mg_l_C == <<"m", "g", "/", "l", " ", "C">>

Unit_mg_Pt_l == <<"m", "g", " ", "P", "t", "/", "l">>

Unit_microg_l == <<"micro", "g", "/", "l">>

Unit_mug_l == <<"mu", "g", "/", "l">>

Unit_microg_l_P == <<"micro", "g", "/", "l", " ", "P">>

Unit_microg_L == <<"micro", "g", "/", "L">>

Unit_Abs_cm == <<"A", "b", "s", "/", "c", "m">>

Unit_unknown == <<"u", "n", "k", "n", "o", "w", "n">>

Units == {Unit_mg_l, Unit_mg_L, Unit_mg_l_C, Unit_mg_Pt_l, Unit_microg_l, Unit_mug_l,
          Unit_microg_l_P, Unit_microg_L, Unit_Abs_cm, Unit_unknown}

FluxColumnSet == {FluxColumns[i] : i \in DOMAIN FluxColumns}

FluxInit ==
    /\ fx_pc = "call"
    /\ \E q \in [1..MaxFluxDays -> {NaN, 1, 2}], vals \in [FluxColumnSet -> [1..MaxFluxDays -> {NaN, 10}]] :
          fx_df = [discharge |-> q, columns |-> FluxColumns, values |-> vals]
    /\ \E known \in SUBSET FluxColumnSet : fx_units \in [known -> Units]
    /\ fx_out = <<>>

\* str.endswith
EndsWith(unit, suffix) ==
    /\ Len(unit) >= Len(suffix)
    /\ SubSeq(unit, Len(unit) - Len(suffix) + 1, Len(unit)) = suffix

\* Lines 165-173: the branches of the unit dispatch.
IsMilligram(unit) == \E sfx \in {Unit_mg_l, Unit_mg_l_C, Unit_mg_Pt_l} : EndsWith(unit, sfx)

IsMicrogram(unit) ==
    \E sfx \in {Unit_microg_l, Unit_mug_l, Unit_microg_l_P} : EndsWith(unit, sfx)

IsAbsorbance(unit) == EndsWith(unit, Unit_Abs_cm)

\* The factor to kg/m3 as a power of ten: 1e-3, 1e-6 or 1.
UnitExponent(unit) ==
    IF IsMilligram(unit) THEN 0 - 3
    ELSE IF IsMicrogram(unit) THEN 0 - 6
    ELSE 0

\* A flux m * 10^e is the record [m |-> m, e |-> e]; a missing flux has a
\* missing m.
MissingFlux == [m |-> NaN, e |-> 0]

\* kg per day instead of tonnes per day.
DailyFlux_Kg(value, exponent, q) ==
    IF IsNaN(value) \/ IsNaN(q) THEN MissingFlux
    ELSE [m |-> value * (q * 86400), e |-> exponent]

\* Lines 152, 166-175: conc_kg_m3 * q_m3_per_day / 1000.
DailyFlux(value, exponent, q) ==
    IF IsNaN(value) \/ IsNaN(q) THEN MissingFlux
    ELSE [m |-> value * (q * 86400), e |-> exponent - 3]

\* The loop body is skipped for a variable (lines 158-160, 171-173).
Skipped(var, param_unit_map) ==
    \/ var \notin DOMAIN param_unit_map
    \/ ~(IsMilligram(param_unit_map[var]) \/ IsMicrogram(param_unit_map[var])
            \/ IsAbsorbance(param_unit_map[var]))

\* compute_fluxes with `break` in place of `continue`.
compute_fluxes_Break(df, param_unit_map) ==
    LET cols == df.columns
        kept == {cols[i] : i \in {k \in DOMAIN cols : \A j \in 1..k : ~Skipped(cols[j], param_unit_map)}}
    IN [v \in kept |->
           [i \in DOMAIN df.discharge |->
               DailyFlux(df.values[v][i], UnitExponent(param_unit_map[v]), df.discharge[i])]]

compute_fluxes(df, param_unit_map) ==
    LET cols == df.columns
        kept == {cols[i] : i \in {k \in DOMAIN cols : ~Skipped(cols[k], param_unit_map)}}
    IN [v \in kept |->
           [i \in DOMAIN df.discharge |->
               DailyFlux(df.values[v][i], UnitExponent(param_unit_map[v]), df.discharge[i])]]

ComputeFluxes ==
    /\ fx_pc = "call"
    /\ fx_out' = compute_fluxes(fx_df, fx_units)
    /\ fx_pc' = "returned"
    /\ UNCHANGED <<fx_df, fx_units>>
    /\ UNCHANGED <<coreVars, anchorVars, aggVars, runVars, tileVars, cmdVars, errVars>>

FluxNext == ComputeFluxes

InitFlux == FluxInit /\ CoreIdle /\ AnchorIdle /\ AggIdle /\ RunIdle /\ TileIdle /\ CmdIdle /\ ErrIdle

SpecFlux == InitFlux /\ [][FluxNext]_vars

\* value * 10^f * discharge * 86400 / 1000 = value * discharge * 86400 *
\* 10^(f - 3); missing when the value or the discharge is missing.
ExpectedFlux(v, f, i) ==
    IF fx_df.values[v][i] = NaN \/ fx_df.discharge[i] = NaN THEN [m |-> NaN, e |-> 0]
    ELSE [m |-> fx_df.values[v][i] * fx_df.discharge[i] * 86400, e |-> f - 3]

HasFluxColumn(v, f) ==
    /\ v \in DOMAIN fx_out
    /\ \A i \in DOMAIN fx_df.discharge : fx_out[v][i] = ExpectedFlux(v, f, i)

\* C24 (as stated): for every day and every variable with a known unit the
\* flux is value * f(unit) * discharge * 86400 / 1000, with f = 1e-3 for
\* mg/L, 1e-6 for ug/L (both written with capital L) and 1 for Abs/cm.
C24_FluxFormulaCapitalL ==
    fx_pc = "returned" =>
        \A v \in DOMAIN fx_units :
            /\ fx_units[v] = Unit_mg_L => HasFluxColumn(v, 0 - 3)
            /\ fx_units[v] = Unit_microg_L => HasFluxColumn(v, 0 - 6)
            /\ fx_units[v] = Unit_Abs_cm => HasFluxColumn(v, 0)

\* C24 (amended): the flux is value * f(unit) * discharge * 86400 / 1000
\* with f = 1e-3 for the units mg/l, mg/l C and mg Pt/l, 1e-6 for ug/l
\* (micro sign or Greek mu) and ug/l P, and 1 for Abs/cm, all with a
\* lower-case l; mg/L and ug/L with capital L are unknown units and give
\* no flux column.
C24_FluxFormulaLowerCase ==
    fx_pc = "returned" =>
        \A v \in DOMAIN fx_units :
            /\ fx_units[v] \in {Unit_mg_l, Unit_mg_l_C, Unit_mg_Pt_l} => HasFluxColumn(v, 0 - 3)
            /\ fx_units[v] \in {Unit_microg_l, Unit_mug_l, Unit_microg_l_P} => HasFluxColumn(v, 0 - 6)
            /\ fx_units[v] = Unit_Abs_cm => HasFluxColumn(v, 0)
            /\ fx_units[v] \in {Unit_mg_L, Unit_microg_L} => v \notin DOMAIN fx_out

\* Witness: 10 mg/l at a discharge of 1 m3/s gives 0.864 tonnes per day,
\* and a variable in mg/L has no flux column.
C24_Witness ==
    /\ fx_pc = "returned"
    /\ \E v, w \in DOMAIN fx_units :
          /\ fx_units[v] = Unit_mg_l
          /\ fx_df.values[v][1] = 10 /\ fx_df.discharge[1] = 1
          /\ fx_out[v][1] = [m |-> 864000, e |-> 0 - 6]
          /\ fx_units[w] = Unit_mg_L
          /\ w \notin DOMAIN fx_out
\* ------------------------------------------------------------------------
\* C25: a variable without unit entry or with an unknown unit
\* ------------------------------------------------------------------------
\* The unit of v is none of those the code knows.
UnknownUnit(v) ==
    \/ v \notin DOMAIN fx_units
    \/ fx_units[v] \in {Unit_mg_L, Unit_microg_L, Unit_unknown}

\* The frame without the column of v.
WithoutColumn(df, v) ==
    [df EXCEPT !.columns = SelectSeq(df.columns, LAMBDA c : c # v),
               !.values = [c \in DOMAIN df.values \ {v} |-> df.values[c]]]

\* C25: compute_fluxes returns (it does not raise); a variable with an
\* unknown unit or without unit entry has no column in the result, and the
\* result is what compute_fluxes returns for the frame without that variable.
C25_UnknownUnitSkipped ==
    /\ fx_pc \in {"call", "returned"}
    /\ fx_pc = "returned" =>
          \A v \in FluxColumnSet :
              UnknownUnit(v) =>
                  /\ v \notin DOMAIN fx_out
                  /\ fx_out = compute_fluxes(WithoutColumn(fx_df, v), fx_units)

\* Witness: the first column has an unknown unit and the second column,
\* in mg/l, has its fluxes.
C25_Witness ==
    /\ fx_pc = "returned"
    /\ FluxColumns[1] \in DOMAIN fx_units
    /\ fx_units[FluxColumns[1]] = Unit_unknown
    /\ FluxColumns[1] \notin DOMAIN fx_out
    /\ FluxColumns[2] \in DOMAIN fx_out
    /\ fx_df.values[FluxColumns[2]][1] = 10 /\ fx_df.discharge[1] = 1
    /\ fx_out[FluxColumns[2]][1] = [m |-> 864000, e |-> 0 - 6]
\* ------------------------------------------------------------------------
\* flux(): the statements after the merge (fluxes.py, lines 586-631)
\* ------------------------------------------------------------------------
FluxRunInit ==
    /\ FluxInit
    /\ fr_pc = "compute_fluxes"
    /\ fr_error = None

\* Line 587
RunComputeFluxes ==
    /\ fr_pc = "compute_fluxes"
    /\ fx_out' = compute_fluxes(fx_df, fx_units)
    /\ fx_pc' = "returned"
    /\ fr_pc' = "aggregate"
    /\ UNCHANGED <<fx_df, fx_units, fr_error>>

\* Lines 593-603: date becomes the index of daily_df; monthly_df and
\* annual_df are derived from it.
RunAggregate ==
    /\ fr_pc = "aggregate"
    /\ fr_pc' = "plot_daily_fluxes"
    /\ UNCHANGED <<fluxVars, fr_error>>

\* plot_daily_fluxes, line 218: the numeric columns that are not all NaN.
PlottedVars == {v \in DOMAIN fx_out : \E i \in DOMAIN fx_out[v] : NotNa(fx_out[v][i].m)}

\* plot_daily_fluxes, lines 220-224: plt.subplots(0, 3) raises ValueError.
PlotDailyNoRows ==
    /\ fr_pc = "plot_daily_fluxes"
    /\ PlottedVars = {}
    /\ fr_pc' = "raised"
    /\ fr_error' = "ValueError: Number of rows must be a positive integer"
    /\ UNCHANGED fluxVars

\* plot_daily_fluxes, line 228: df["date"], but date is the index of
\* daily_df (line 595) and no column: KeyError.
PlotDailyNoDateColumn ==
    /\ fr_pc = "plot_daily_fluxes"
    /\ PlottedVars # {}
    /\ fr_pc' = "raised"
    /\ fr_error' = "KeyError: 'date'"
    /\ UNCHANGED fluxVars

\* The statements after line 607 (assert False, the monthly and annual
\* plots, save_flux_datasets_as_netcdf) are never reached.
FluxRunNext ==
    \/ RunComputeFluxes /\ UNCHANGED <<coreVars, anchorVars, aggVars, tileVars, cmdVars, errVars>>
    \/ RunAggregate /\ UNCHANGED <<coreVars, anchorVars, aggVars, tileVars, cmdVars, errVars>>
    \/ PlotDailyNoRows /\ UNCHANGED <<coreVars, anchorVars, aggVars, tileVars, cmdVars, errVars>>
    \/ PlotDailyNoDateColumn /\ UNCHANGED <<coreVars, anchorVars, aggVars, tileVars, cmdVars, errVars>>

InitFluxRun == FluxRunInit /\ CoreIdle /\ AnchorIdle /\ AggIdle /\ TileIdle /\ CmdIdle /\ ErrIdle

SpecFluxRun == InitFluxRun /\ [][FluxRunNext]_vars

\* flux() is one sequential call: a statement that can run does run.
SpecFluxRunLive == SpecFluxRun /\ WF_vars(FluxRunNext)

\* C26: a flux run always completes: once the daily fluxes are computed,
\* flux() eventually reaches the step that saves the daily, monthly and
\* annual flux tables, without raising.
C26_RunReachesSave ==
    (fr_pc = "aggregate") ~> (fr_pc = "save_flux_datasets_as_netcdf")
\* ------------------------------------------------------------------------
\* NivaTilePlotProcessor._execute (pygeoapi_processes/tile_plot.py)
\* ------------------------------------------------------------------------
\* Strings that strptime(..., "%Y-%m-%d") accepts, and one it rejects.
ValidDates == {"2023-01-01", "2023-08-08", "2023-12-31"}

DateInputs == ValidDates \cup {"08/08/2023"}

\* Strings that float() accepts, and one it rejects.
LatInputs == {"59.5", "north"}

\* dict.get(key): None for a key that is not given.
Get(data, key) == IF key \in DOMAIN data THEN data[key] ELSE None

TileInit ==
    /\ tp_pc = "inputs"
    /\ \E keys \in SUBSET {"url_input_csv", "start_date", "end_date", "parameters",
                           "lat1", "storm_date"} :
          /\ tp_data \in [keys -> DateInputs \cup LatInputs \cup {"https://input.csv", "salinity"}]
          /\ \A k \in keys :
                /\ k = "url_input_csv" => tp_data[k] = "https://input.csv"
                /\ k = "parameters" => tp_data[k] = "salinity"
                /\ k = "start_date" => tp_data[k] \in {"2023-01-01", "08/08/2023"}
                /\ k = "end_date" => tp_data[k] \in {"2023-12-31", "08/08/2023"}
                /\ k = "storm_date" => tp_data[k] \in DateInputs
                /\ k = "lat1" => tp_data[k] \in LatInputs
    /\ tp_r_args = <<>>
    /\ tp_error = None

\* Lines 86-92: the inputs as _execute reads them.
url_input_csv == Get(tp_data, "url_input_csv")

start_date == Get(tp_data, "start_date")

end_date == Get(tp_data, "end_date")

parameters == Get(tp_data, "parameters")

lat1 == Get(tp_data, "lat1")

lat2 == Get(tp_data, "lat2")

\* Line 92: storm_date = data.get('end_date', None)
storm_date == Get(tp_data, "end_date")

MissingParameter ==
    url_input_csv = None \/ start_date = None \/ end_date = None \/ parameters = None

\* Lines 95-102
RaiseMissingParameter ==
    /\ tp_pc = "inputs"
    /\ MissingParameter
    /\ tp_pc' = "raised"
    /\ tp_error' = "ProcessorExecuteError: Missing parameter"
    /\ UNCHANGED <<tp_data, tp_r_args>>

\* Lines 105-111: strptime raises ValueError.
InvalidDate ==
    \/ start_date \notin ValidDates
    \/ end_date \notin ValidDates
    \/ storm_date # None /\ storm_date \notin ValidDates

RaiseInvalidDate ==
    /\ tp_pc = "inputs"
    /\ ~MissingParameter
    /\ InvalidDate
    /\ tp_pc' = "raised"
    /\ tp_error' = "ValueError: time data does not match format"
    /\ UNCHANGED <<tp_data, tp_r_args>>

\* Lines 113-116: float() raises ValueError.
InvalidLatitude ==
    \/ lat1 # None /\ lat1 = "north"
    \/ lat2 # None /\ lat2 = "north"

RaiseInvalidLatitude ==
    /\ tp_pc = "inputs"
    /\ ~MissingParameter
    /\ ~InvalidDate
    /\ InvalidLatitude
    /\ tp_pc' = "raised"
    /\ tp_error' = "ValueError: could not convert string to float"
    /\ UNCHANGED <<tp_data, tp_r_args>>

\* Lines 152-161: the call of run_docker_container3.
RunTilePlot ==
    /\ tp_pc = "inputs"
    /\ ~MissingParameter
    /\ ~InvalidDate
    /\ ~InvalidLatitude
    /\ tp_r_args' = <<url_input_csv, "tile_plot.png", start_date, end_date, parameters,
                      lat1, lat2, storm_date>>
    /\ tp_pc' = "run_docker_container3"
    /\ UNCHANGED <<tp_data, tp_error>>

\* Lines 163-165: the exit code of the container is not 0.
RaiseScriptError ==
    /\ tp_pc = "run_docker_container3"
    /\ tp_pc' = "raised"
    /\ tp_error' = "ProcessorExecuteError: user_err_msg"
    /\ UNCHANGED <<tp_data, tp_r_args>>

\* Lines 173-185
ReturnOutputs ==
    /\ tp_pc = "run_docker_container3"
    /\ tp_pc' = "returned"
    /\ UNCHANGED <<tp_data, tp_r_args, tp_error>>

TileNext ==
    \/ RaiseMissingParameter /\ UNCHANGED <<coreVars, anchorVars, aggVars, fluxVars, runVars, cmdVars, errVars>>
    \/ RaiseInvalidDate /\ UNCHANGED <<coreVars, anchorVars, aggVars, fluxVars, runVars, cmdVars, errVars>>
    \/ RaiseInvalidLatitude /\ UNCHANGED <<coreVars, anchorVars, aggVars, fluxVars, runVars, cmdVars, errVars>>
    \/ RunTilePlot /\ UNCHANGED <<coreVars, anchorVars, aggVars, fluxVars, runVars, cmdVars, errVars>>
    \/ RaiseScriptError /\ UNCHANGED <<coreVars, anchorVars, aggVars, fluxVars, runVars, cmdVars, errVars>>
    \/ ReturnOutputs /\ UNCHANGED <<coreVars, anchorVars, aggVars, fluxVars, runVars, cmdVars, errVars>>

InitTile == TileInit /\ CoreIdle /\ AnchorIdle /\ AggIdle /\ FluxIdle /\ RunIdle /\ CmdIdle /\ ErrIdle

SpecTile == InitTile /\ [][TileNext]_vars

\* C27: the storm_date argument handed to the R script is the storm_date
\* of the request (null when the request has none), whatever end_date is;
\* and a storm_date that is no date is rejected before the script runs.
C27_StormDateForwarded ==
    tp_r_args # <<>> =>
        /\ tp_r_args[8] = Get(tp_data, "storm_date")
        /\ tp_r_args[8] = None \/ tp_r_args[8] \in ValidDates
\* ------------------------------------------------------------------------
\* C28: a method that the outlier check rejected as primary for a variable
\* supplies no value of that variable's final series: it is neither the
\* primary nor the donor of the gap fill.
\* ------------------------------------------------------------------------
C28_GateRejectedNeverUsed ==
    \A v \in Vars :
        Saved(v) =>
            \A e \in stdout :
                (e[1] = v /\ e[2] = "rejected") =>
                    /\ methods_chosen[v].primary # e[3]
                    /\ methods_chosen[v].donor # e[3]
\* ------------------------------------------------------------------------
\* run_docker_container3 (pygeoapi_processes/docker_utils.py, lines 195-284)
\* ------------------------------------------------------------------------
\* Longest list of script arguments that is enumerated.
MaxArgs == 2

\* A Python value is a record of its type and its content; a string is the
\* sequence of its parts, so that a path below the output directory shows.
Str(parts) == [type |-> "str", value |-> parts]

PyNone == [type |-> "NoneType", value |-> <<>>]

\* A boolean is written as Python prints it, "True" or "False".
PyBool(b) == [type |-> "bool", value |-> <<b>>]

PyFloat(x) == [type |-> "float", value |-> <<x>>]

HostOut == "/data/out/job_1"

\* None, 'None', True, False, a path below the output directory, a date,
\* and two bounding-box values as NivaFerryboxProcessor._execute passes them
\* (netcdf_extract_save_fb.py, lines 124-134 and 194).
ArgChoices ==
    {PyNone, Str(<<"None">>), PyBool("True"), PyBool("False"),
     Str(<<HostOut, "/result.csv">>), Str(<<"2023-01-01">>),
     PyFloat("42.08333"), PyFloat("8.1525")}

CmdInit ==
    /\ dk_pc = "sanitize"
    /\ dk_host_out \in {None, HostOut}
    /\ dk_script_args \in UNION {[1..n -> ArgChoices] : n \in 1..MaxArgs}
    /\ dk_command = <<>>
    /\ dk_error = None

\* Lines 226-239: one pass of the sanitizing loop; container_out is '/out'.
Sanitize(arg, host_out) ==
    IF arg = PyNone \/ arg = Str(<<"None">>) THEN Str(<<"null">>)
    ELSE IF arg.type = "bool" THEN (IF arg.value[1] = "True" THEN Str(<<"true">>) ELSE Str(<<"false">>))
    ELSE IF arg.type = "str" /\ host_out # None
            /\ \E k \in DOMAIN arg.value : arg.value[k] = host_out
         THEN Str([k \in DOMAIN arg.value |->
                     IF arg.value[k] = host_out THEN "/out" ELSE arg.value[k]])
    ELSE arg

\* Lines 219 and 225-260: the arguments are sanitized and appended to the
\* docker arguments.
BuildCommand ==
    /\ dk_pc = "sanitize"
    /\ dk_command' =
          <<Str(<<"docker">>), Str(<<"run">>), Str(<<"--rm">>), Str(<<"--name">>),
            Str(<<"container_name">>)>>
          \o (IF dk_host_out # None
              THEN <<Str(<<"-v">>), Str(<<dk_host_out, ":", "/out", ":rw">>)>>
              ELSE <<>>)
          \o <<Str(<<"-e">>), Str(<<"SCRIPT=", "script_name">>), Str(<<"image_name">>)>>
          \o [i \in DOMAIN dk_script_args |-> Sanitize(dk_script_args[i], dk_host_out)]
    /\ dk_pc' = "subprocess.run"
    /\ UNCHANGED <<dk_host_out, dk_script_args, dk_error>>

AllStrings(command) == \A i \in DOMAIN command : command[i].type = "str"

\* Line 266: subprocess.run refuses a list with an element that is no
\* string (TypeError, not caught by the except clause of line 277).
RunRaisesTypeError ==
    /\ dk_pc = "subprocess.run"
    /\ ~AllStrings(dk_command)
    /\ dk_pc' = "raised"
    /\ dk_error' = "TypeError: expected str, bytes or os.PathLike object"
    /\ UNCHANGED <<dk_host_out, dk_script_args, dk_command>>

\* Lines 266-275: exit code 0.
RunSucceeds ==
    /\ dk_pc = "subprocess.run"
    /\ AllStrings(dk_command)
    /\ dk_pc' = "returned"
    /\ UNCHANGED <<dk_host_out, dk_script_args, dk_command, dk_error>>

\* Lines 277-284: CalledProcessError is caught, the exit code returned.
RunFails ==
    /\ dk_pc = "subprocess.run"
    /\ AllStrings(dk_command)
    /\ dk_pc' = "returned_error"
    /\ UNCHANGED <<dk_host_out, dk_script_args, dk_command, dk_error>>

CmdNext ==
    \/ BuildCommand /\ UNCHANGED <<coreVars, anchorVars, aggVars, fluxVars, runVars, tileVars, errVars>>
    \/ RunRaisesTypeError /\ UNCHANGED <<coreVars, anchorVars, aggVars, fluxVars, runVars, tileVars, errVars>>
    \/ RunSucceeds /\ UNCHANGED <<coreVars, anchorVars, aggVars, fluxVars, runVars, tileVars, errVars>>
    \/ RunFails /\ UNCHANGED <<coreVars, anchorVars, aggVars, fluxVars, runVars, tileVars, errVars>>

InitCmd == CmdInit /\ CoreIdle /\ AnchorIdle /\ AggIdle /\ FluxIdle /\ RunIdle /\ TileIdle /\ ErrIdle

SpecCmd == InitCmd /\ [][CmdNext]_vars

\* C29: every element of the command list handed to the subprocess is a
\* string, whatever the types of the script arguments: None is 'null', a
\* boolean is 'true' or 'false', and a numeric bounding-box value is a
\* string as well.
C29_CommandAllStrings ==
    dk_command # <<>> =>
        /\ \A i \in DOMAIN dk_command : dk_command[i].type = "str"
        /\ \A i \in DOMAIN dk_script_args :
              LET out == dk_command[Len(dk_command) - Len(dk_script_args) + i] IN
              /\ dk_script_args[i].type = "NoneType" => out.value = <<"null">>
              /\ dk_script_args[i] = [type |-> "bool", value |-> <<"True">>] => out.value = <<"true">>
              /\ dk_script_args[i] = [type |-> "bool", value |-> <<"False">>] => out.value = <<"false">>
\* ------------------------------------------------------------------------
\* get_error_message_from_docker_stderr (pygeoapi_processes/docker_utils.py,
\* lines 301-363)
\* ------------------------------------------------------------------------
\* Longest stderr, in lines, that is enumerated.
MaxLines == 3

\* A line is the sequence of its pieces, so that its beginning, its end and
\* its surrounding blanks show. The lines are those of the docstring
\* (lines 306-313) and of R's warnings.
ErrorInCall == <<"Error", " in pred_extract(data = speciesfiltered) ", ":", " ">>

ErrorComplete == <<"Error", ": object 'x' not found">>

FatalError == <<"Fatal error", ": cannot open file 'script.R'">>

IndentedLine == <<"  ", "argument is of length zero">>

CallsLine == <<"Calls", ": pred_extract">>

ExecutionHalted == <<"Execution halted">>

WarningMessage == <<"Warning message", ":">>

WarningText == <<"In log(-1) ", ":", " NaNs produced">>

EmptyLine == <<>>

StderrLines ==
    {ErrorInCall, ErrorComplete, FatalError, IndentedLine, CallsLine,
     ExecutionHalted, WarningMessage, WarningText, EmptyLine}

Blank == {" ", "  "}

\* str.strip(): the line without its leading and trailing blanks.
RECURSIVE Strip(_)
Strip(line) ==
    IF line = <<>> THEN <<>>
    ELSE IF Head(line) \in Blank THEN Strip(Tail(line))
    ELSE IF line[Len(line)] \in Blank THEN Strip(SubSeq(line, 1, Len(line) - 1))
    ELSE line

\* Line 332
StartsWithError(line) == line # <<>> /\ Head(line) \in {"Error", "Fatal error"}

\* Line 339
StartsWithTwoSpaces(line) == line # <<>> /\ Head(line) = "  "

\* Line 358
EndsWithColon(line) == Strip(line) # <<>> /\ Strip(line)[Len(Strip(line))] = ":"

\* Lines 318-321
ErrInit ==
    /\ er_pc = "loop"
    /\ er_stderr \in UNION {[1..n -> StderrLines] : n \in 1..MaxLines}
    /\ er_i = 1
    /\ user_err_msg = <<>>
    /\ error_on_previous_line = FALSE
    /\ colon_on_previous_line = FALSE

AtLine == er_pc = "loop" /\ er_i <= Len(er_stderr)

\* Lines 323-325: an empty line is skipped, the flags stay as they are.
SkipEmptyLine ==
    /\ AtLine
    /\ er_stderr[er_i] = <<>>
    /\ er_i' = er_i + 1
    /\ UNCHANGED <<er_pc, er_stderr, user_err_msg, error_on_previous_line, colon_on_previous_line>>

\* Lines 332-335 and 357-360
ExplicitErrorLine ==
    /\ AtLine
    /\ er_stderr[er_i] # <<>>
    /\ StartsWithError(er_stderr[er_i])
    /\ user_err_msg' = user_err_msg \o Strip(er_stderr[er_i])
    /\ error_on_previous_line' = TRUE
    /\ colon_on_previous_line' = EndsWithColon(er_stderr[er_i])
    /\ er_i' = er_i + 1
    /\ UNCHANGED <<er_pc, er_stderr>>

\* Lines 339-342 and 357-360
IndentedAfterError ==
    /\ AtLine
    /\ er_stderr[er_i] # <<>>
    /\ ~StartsWithError(er_stderr[er_i])
    /\ StartsWithTwoSpaces(er_stderr[er_i]) /\ error_on_previous_line
    /\ user_err_msg' = user_err_msg \o <<" ">> \o Strip(er_stderr[er_i])
    /\ error_on_previous_line' = TRUE
    /\ colon_on_previous_line' = EndsWithColon(er_stderr[er_i])
    /\ er_i' = er_i + 1
    /\ UNCHANGED <<er_pc, er_stderr>>

\* The condition of line 346.
AfterColon == colon_on_previous_line

\* Lines 346-349 and 357-360
LineAfterColon ==
    /\ AtLine
    /\ er_stderr[er_i] # <<>>
    /\ ~StartsWithError(er_stderr[er_i])
    /\ ~(StartsWithTwoSpaces(er_stderr[er_i]) /\ error_on_previous_line)
    /\ AfterColon
    /\ user_err_msg' = user_err_msg \o <<" ">> \o Strip(er_stderr[er_i])
    /\ error_on_previous_line' = TRUE
    /\ colon_on_previous_line' = EndsWithColon(er_stderr[er_i])
    /\ er_i' = er_i + 1
    /\ UNCHANGED <<er_pc, er_stderr>>

\* Lines 351-353 and 357-360
OtherLine ==
    /\ AtLine
    /\ er_stderr[er_i] # <<>>
    /\ ~StartsWithError(er_stderr[er_i])
    /\ ~(StartsWithTwoSpaces(er_stderr[er_i]) /\ error_on_previous_line)
    /\ ~AfterColon
    /\ error_on_previous_line' = FALSE
    /\ colon_on_previous_line' = EndsWithColon(er_stderr[er_i])
    /\ er_i' = er_i + 1
    /\ UNCHANGED <<er_pc, er_stderr, user_err_msg>>

\* Line 362
ReturnMessage ==
    /\ er_pc = "loop"
    /\ er_i > Len(er_stderr)
    /\ er_pc' = "returned"
    /\ UNCHANGED <<er_stderr, er_i, user_err_msg, error_on_previous_line, colon_on_previous_line>>

ErrNext ==
    \/ SkipEmptyLine /\ UNCHANGED <<coreVars, anchorVars, aggVars, fluxVars, runVars, tileVars, cmdVars>>
    \/ ExplicitErrorLine /\ UNCHANGED <<coreVars, anchorVars, aggVars, fluxVars, runVars, tileVars, cmdVars>>
    \/ IndentedAfterError /\ UNCHANGED <<coreVars, anchorVars, aggVars, fluxVars, runVars, tileVars, cmdVars>>
    \/ LineAfterColon /\ UNCHANGED <<coreVars, anchorVars, aggVars, fluxVars, runVars, tileVars, cmdVars>>
    \/ OtherLine /\ UNCHANGED <<coreVars, anchorVars, aggVars, fluxVars, runVars, tileVars, cmdVars>>
    \/ ReturnMessage /\ UNCHANGED <<coreVars, anchorVars, aggVars, fluxVars, runVars, tileVars, cmdVars>>

InitErr == ErrInit /\ CoreIdle /\ AnchorIdle /\ AggIdle /\ FluxIdle /\ RunIdle /\ TileIdle /\ CmdIdle

SpecErr == InitErr /\ [][ErrNext]_vars

\* The line before position i completes an error message: it is an error
\* line or a continuation of one, and does not end with a colon.
FollowsCompletedError ==
    /\ AtLine
    /\ er_i > 1
    /\ er_stderr[er_i - 1] # <<>>
    /\ error_on_previous_line
    /\ ~EndsWithColon(er_stderr[er_i - 1])

\* C30: the returned message holds only R error lines and their
\* continuation lines: with no stderr line that starts with 'Error' or
\* 'Fatal error' the message is empty, and a line 'Execution halted' or
\* 'Calls: ...' that follows a completed error message adds nothing to it.
C30_OnlyErrorText ==
    /\ [](er_pc = "returned" =>
            ((\A i \in DOMAIN er_stderr : ~StartsWithError(er_stderr[i]))
                => user_err_msg = <<>>))
    /\ [][(FollowsCompletedError /\ er_stderr[er_i] \in {ExecutionHalted, CallsLine})
            => user_err_msg' = user_err_msg]_vars
====
